---- MODULE Spec2Model ----
(***************************************************************************)
(* A model of the chess core of justinzhar/chess: the Position and its     *)
(* move generator and legality filter (board.py), the permanent mutator    *)
(* Board.make_move, the temporary apply/undo pair and the alpha-beta       *)
(* search of ChessAI (ai.py), and the turn handling of ChessGame (game.py).*)
(*                                                                         *)
(* A Position is three things, as in Board: the 8x8 grid `board`, whose    *)
(* squares hold references to Piece objects, the Piece objects themselves  *)
(* (`pieces`, indexed by reference; reference 0 is Python's None), and     *)
(* en_passant_target (<<>> is None).  Square (row, col) is entry           *)
(* row * 8 + col + 1 of the grid.                                          *)
(***************************************************************************)
EXTENDS Integers, Sequences, FiniteSets, TLC

PAWN   == "pawn"
KNIGHT == "knight"
BISHOP == "bishop"
ROOK   == "rook"
QUEEN  == "queen"
KING   == "king"
WHITE  == "white"
BLACK  == "black"

None == 0
NoSquare == <<>>

Idx(row, col) == row * 8 + col + 1

Piece(piece_type, color) ==
    [piece_type |-> piece_type, color |-> color, has_moved |-> FALSE]

Other(color) == IF color = WHITE THEN BLACK ELSE WHITE

back_row == <<ROOK, KNIGHT, BISHOP, QUEEN, KING, BISHOP, KNIGHT, ROOK>>

\* Board.setup_board: the references 1..32 are handed out in the order of
\* the two loops (black back row and pawns interleaved, then white).
setup_board ==
    [ board |-> [i \in 1..64 |->
                    LET row == (i - 1) \div 8
                        col == (i - 1) % 8
                    IN  CASE row = 0 -> 2 * col + 1
                          [] row = 1 -> 2 * col + 2
                          [] row = 6 -> 16 + 2 * col + 1
                          [] row = 7 -> 16 + 2 * col + 2
                          [] OTHER   -> None],
      pieces |-> [k \in 1..32 |->
                    LET col == ((k - 1) % 16) \div 2
                        color == IF k <= 16 THEN BLACK ELSE WHITE
                    IN  IF (k <= 16) = (k % 2 = 1)
                        THEN Piece(back_row[col + 1], color)
                        ELSE Piece(PAWN, color)],
      en_passant_target |-> NoSquare ]

\* Variant of is_valid_position without the lower bounds.
is_valid_position_upper_only(row, col) == row < 8 /\ col < 8

is_valid_position(row, col) == 0 <= row /\ row < 8 /\ 0 <= col /\ col < 8

\* self.board[row][col].  A Python list counts a negative index from its
\* end, and has no element for an index of 8 or more.
At(P, row, col) ==
    P.board[Idx(IF row < 0 THEN row + 8 ELSE row,
                IF col < 0 THEN col + 8 ELSE col)]

\* Board.get_piece: the reference held by the square, None off the board.
get_piece(P, row, col) ==
    IF 0 <= row /\ row < 8 /\ 0 <= col /\ col < 8 THEN At(P, row, col) ELSE None

\* Variant of get_pawn_moves whose double move does not look at the square
\* two steps ahead.
get_pawn_moves_jumping(P, row, col, piece) ==
    LET direction == IF piece.color = WHITE THEN -1 ELSE 1
        start_row == IF piece.color = WHITE THEN 6 ELSE 1
        new_row   == row + direction
        forward ==
            IF is_valid_position(new_row, col) /\ At(P, new_row, col) = None
            THEN <<<<new_row, col>>>> \o
                 (IF row = start_row
                  THEN <<<<row + 2 * direction, col>>>>
                  ELSE <<>>)
            ELSE <<>>
        diagonal(dc) ==
            LET new_col == col + dc
            IN  IF is_valid_position(new_row, new_col)
                THEN LET target == At(P, new_row, new_col)
                     IN  IF target # None /\ P.pieces[target].color # piece.color
                         THEN <<<<new_row, new_col>>>>
                         ELSE IF <<new_row, new_col>> = P.en_passant_target
                              THEN <<<<new_row, new_col>>>>
                              ELSE <<>>
                ELSE <<>>
    IN  forward \o diagonal(-1) \o diagonal(1)

get_pawn_moves(P, row, col, piece) ==
    LET direction == IF piece.color = WHITE THEN -1 ELSE 1
        start_row == IF piece.color = WHITE THEN 6 ELSE 1
        new_row   == row + direction
        forward ==
            IF is_valid_position(new_row, col) /\ At(P, new_row, col) = None
            THEN <<<<new_row, col>>>> \o
                 (IF row = start_row /\ At(P, row + 2 * direction, col) = None
                  THEN <<<<row + 2 * direction, col>>>>
                  ELSE <<>>)
            ELSE <<>>
        diagonal(dc) ==
            LET new_col == col + dc
            IN  IF is_valid_position(new_row, new_col)
                THEN LET target == At(P, new_row, new_col)
                     IN  IF target # None /\ P.pieces[target].color # piece.color
                         THEN <<<<new_row, new_col>>>>
                         ELSE IF <<new_row, new_col>> = P.en_passant_target
                              THEN <<<<new_row, new_col>>>>
                              ELSE <<>>
                ELSE <<>>
    IN  forward \o diagonal(-1) \o diagonal(1)

\* The occupancy rule shared by the knight and the king's regular moves.
StepMoves(P, row, col, piece, deltas) ==
    LET ok(d) ==
            is_valid_position(row + d[1], col + d[2])
            /\ LET target == At(P, row + d[1], col + d[2])
               IN  target = None \/ P.pieces[target].color # piece.color
        kept == SelectSeq(deltas, ok)
    IN  [i \in 1..Len(kept) |-> <<row + kept[i][1], col + kept[i][2]>>]

\* Variant of knight_deltas without the jump (-2, 1).
knight_deltas_seven ==
    << <<-2, -1>>, <<-1, -2>>, <<-1, 2>>, <<1, -2>>, <<1, 2>>, <<2, -1>>, <<2, 1>> >>

knight_deltas ==
    << <<-2, -1>>, <<-2, 1>>, <<-1, -2>>, <<-1, 2>>,
       <<1, -2>>, <<1, 2>>, <<2, -1>>, <<2, 1>> >>

get_knight_moves(P, row, col, piece) ==
    StepMoves(P, row, col, piece, knight_deltas)

\* The while loop of get_sliding_moves along one direction.
RECURSIVE Ray(_, _, _, _, _, _)
Ray(P, new_row, new_col, dr, dc, piece) ==
    IF ~is_valid_position(new_row, new_col) THEN <<>>
    ELSE LET target == At(P, new_row, new_col)
         IN  IF target = None
             THEN <<<<new_row, new_col>>>> \o
                  Ray(P, new_row + dr, new_col + dc, dr, dc, piece)
             ELSE IF P.pieces[target].color # piece.color
                  THEN <<<<new_row, new_col>>>>
                  ELSE <<>>

RECURSIVE get_sliding_moves(_, _, _, _, _)
get_sliding_moves(P, row, col, piece, directions) ==
    IF directions = <<>> THEN <<>>
    ELSE Ray(P, row + directions[1][1], col + directions[1][2],
             directions[1][1], directions[1][2], piece)
         \o get_sliding_moves(P, row, col, piece, Tail(directions))

bishop_directions == << <<-1, -1>>, <<-1, 1>>, <<1, -1>>, <<1, 1>> >>
rook_directions   == << <<-1, 0>>, <<1, 0>>, <<0, -1>>, <<0, 1>> >>
queen_directions  == bishop_directions \o rook_directions

get_bishop_moves(P, row, col, piece) ==
    get_sliding_moves(P, row, col, piece, bishop_directions)

get_rook_moves(P, row, col, piece) ==
    get_sliding_moves(P, row, col, piece, rook_directions)

get_queen_moves(P, row, col, piece) ==
    get_sliding_moves(P, row, col, piece, queen_directions)

\* The (dr, dc) pairs of the king's double loop, in loop order.
king_deltas ==
    << <<-1, -1>>, <<-1, 0>>, <<-1, 1>>, <<0, -1>>,
       <<0, 1>>, <<1, -1>>, <<1, 0>>, <<1, 1>> >>

InSeq(x, s) == \E i \in 1..Len(s) : s[i] = x
Range(s) == {s[i] : i \in DOMAIN s}

RECURSIVE get_raw_moves(_, _, _)

is_square_attacked(P, row, col, defending_color) ==
    LET attacking_color == IF defending_color = WHITE THEN BLACK ELSE WHITE
    IN  \E r \in 0..7 : \E c \in 0..7 :
           LET id == At(P, r, c)
           IN  /\ id # None
               /\ P.pieces[id].color = attacking_color
               /\ IF P.pieces[id].piece_type = KING
                  THEN \E d \in 1..8 :
                          r + king_deltas[d][1] = row /\ c + king_deltas[d][2] = col
                  ELSE InSeq(<<row, col>>, get_raw_moves(P, r, c))

\* Variant of can_castle_kingside that does not look at attacks on the
\* squares the king crosses.
can_castle_kingside_unsafe(P, row, col, piece) ==
    LET rook == get_piece(P, row, 7)
    IN  /\ ~(rook = None \/ P.pieces[rook].piece_type # ROOK
                         \/ P.pieces[rook].has_moved)
        /\ \A c \in (col + 1)..6 : At(P, row, c) = None

can_castle_kingside(P, row, col, piece) ==
    LET rook == get_piece(P, row, 7)
    IN  /\ ~(rook = None \/ P.pieces[rook].piece_type # ROOK
                         \/ P.pieces[rook].has_moved)
        /\ \A c \in (col + 1)..6 : At(P, row, c) = None
        /\ \A c \in (col + 1)..(col + 2) :
              ~is_square_attacked(P, row, c, piece.color)

can_castle_queenside(P, row, col, piece) ==
    LET rook == get_piece(P, row, 0)
    IN  /\ ~(rook = None \/ P.pieces[rook].piece_type # ROOK
                         \/ P.pieces[rook].has_moved)
        /\ \A c \in 1..(col - 1) : At(P, row, c) = None
        /\ \A c \in (col - 2)..(col - 1) :
              ~is_square_attacked(P, row, c, piece.color)

get_king_moves(P, row, col, piece) ==
    StepMoves(P, row, col, piece, king_deltas) \o
    (IF ~piece.has_moved /\ ~is_square_attacked(P, row, col, piece.color)
     THEN (IF can_castle_kingside(P, row, col, piece)
           THEN <<<<row, col + 2>>>> ELSE <<>>) \o
          (IF can_castle_queenside(P, row, col, piece)
           THEN <<<<row, col - 2>>>> ELSE <<>>)
     ELSE <<>>)

get_raw_moves(P, row, col) ==
    LET id == get_piece(P, row, col)
    IN  IF id = None THEN <<>>
        ELSE LET piece == P.pieces[id]
             IN  CASE piece.piece_type = PAWN   -> get_pawn_moves(P, row, col, piece)
                   [] piece.piece_type = KNIGHT -> get_knight_moves(P, row, col, piece)
                   [] piece.piece_type = BISHOP -> get_bishop_moves(P, row, col, piece)
                   [] piece.piece_type = ROOK   -> get_rook_moves(P, row, col, piece)
                   [] piece.piece_type = QUEEN  -> get_queen_moves(P, row, col, piece)
                   [] piece.piece_type = KING   -> get_king_moves(P, row, col, piece)
                   [] OTHER -> <<>>

\* Board.find_king: the first king of the color in row-major order, or None.
find_king(P, color) ==
    LET kings == {i \in 1..64 :
                    /\ P.board[i] # None
                    /\ P.pieces[P.board[i]].piece_type = KING
                    /\ P.pieces[P.board[i]].color = color}
    IN  IF kings = {} THEN NoSquare
        ELSE LET i == CHOOSE k \in kings : \A j \in kings : k <= j
             IN  <<(i - 1) \div 8, (i - 1) % 8>>

is_in_check(P, color) ==
    LET king_pos == find_king(P, color)
    IN  IF king_pos = NoSquare THEN FALSE
        ELSE is_square_attacked(P, king_pos[1], king_pos[2], color)

\* The grid while is_move_legal has the move simulated (lines 238-248): the
\* passed pawn is taken off for an en passant capture, the rook of a castling
\* move is not relocated and nothing is promoted.
SimulatedMove(P, from_row, from_col, to_row, to_col) ==
    LET piece == At(P, from_row, from_col)
        b1 == IF P.pieces[piece].piece_type = PAWN
                 /\ <<to_row, to_col>> = P.en_passant_target
              THEN [P.board EXCEPT ![Idx(from_row, to_col)] = None]
              ELSE P.board
    IN  [P EXCEPT !.board = [b1 EXCEPT ![Idx(to_row, to_col)] = piece,
                                       ![Idx(from_row, from_col)] = None]]

\* Variant of is_move_legal that accepts every pseudo-legal move.
is_move_legal_unfiltered(P, from_row, from_col, to_row, to_col) ==
    At(P, from_row, from_col) # None

is_move_legal(P, from_row, from_col, to_row, to_col) ==
    LET piece == P.pieces[At(P, from_row, from_col)]
        in_check == is_in_check(SimulatedMove(P, from_row, from_col, to_row, to_col),
                                piece.color)
    IN  ~in_check

get_legal_moves(P, row, col) ==
    LET id == get_piece(P, row, col)
    IN  IF id = None THEN <<>>
        ELSE LET legal(move) == is_move_legal(P, row, col, move[1], move[2])
             IN  SelectSeq(get_raw_moves(P, row, col), legal)

Abs(x) == IF x < 0 THEN -x ELSE x

\* Variant of remove_en_passant that leaves the passed pawn on the board.
remove_en_passant_skipped(B, en_passant, from_row, to_col) == B

\* Board.make_move, lines 281-284: an en passant capture takes the pawn off
\* the mover's origin row, destination column.
remove_en_passant(B, en_passant, from_row, to_col) ==
    IF en_passant THEN [B EXCEPT ![Idx(from_row, to_col)] = None] ELSE B

\* Variant of castle_rook that puts the rook beside the king without taking
\* it off its corner.
castle_rook_copied(B, castling, from_row, from_col, to_col) ==
    LET rook_from == IF to_col > from_col THEN 7 ELSE 0
        rook_to   == IF to_col > from_col THEN 5 ELSE 3
    IN  IF castling
        THEN [B EXCEPT ![Idx(from_row, rook_to)] = B[Idx(from_row, rook_from)]]
        ELSE B

\* Board.make_move, lines 286-297: a two-column king move relocates the rook
\* of that side from its corner to the square the king skipped over.
castle_rook(B, castling, from_row, from_col, to_col) ==
    LET rook_from == IF to_col > from_col THEN 7 ELSE 0
        rook_to   == IF to_col > from_col THEN 5 ELSE 3
    IN  IF castling
        THEN [B EXCEPT ![Idx(from_row, rook_from)] = None,
                       ![Idx(from_row, rook_to)] = B[Idx(from_row, rook_from)]]
        ELSE B

\* Variant of next_en_passant_target that sets a target after every pawn
\* advance, of one square or two.
next_en_passant_target_any_advance(piece, from_row, from_col, to_row) ==
    IF piece.piece_type = PAWN /\ Abs(to_row - from_row) >= 1
    THEN <<(from_row + to_row) \div 2, from_col>>
    ELSE NoSquare

\* Board.make_move, lines 299-303: the new en_passant_target.
next_en_passant_target(piece, from_row, from_col, to_row) ==
    IF piece.piece_type = PAWN /\ Abs(to_row - from_row) = 2
    THEN <<(from_row + to_row) \div 2, from_col>>
    ELSE NoSquare

\* Variant of promotes that promotes White's pawns only.
promotes_white_only(piece, to_row) ==
    piece.piece_type = PAWN /\ piece.color = WHITE /\ to_row = 0

\* Board.make_move, lines 311-312: the condition under which the pawn is
\* replaced by a Queen.
promotes(piece, to_row) ==
    /\ piece.piece_type = PAWN
    /\ \/ piece.color = WHITE /\ to_row = 0
       \/ piece.color = BLACK /\ to_row = 7

\* Board.make_move, statement by statement.  The result is the Position
\* after the call and the returned is_capture.
\* Variant of set_has_moved that keeps the flag for kings and rooks only.
set_has_moved_castlers_only(table, id) ==
    IF table[id].piece_type \in {KING, ROOK}
    THEN [table EXCEPT ![id].has_moved = TRUE]
    ELSE table

\* piece.has_moved = True, rook.has_moved = True (board.py, lines 292, 297
\* and 308).
set_has_moved(table, id) == [table EXCEPT ![id].has_moved = TRUE]

make_move(P, from_row, from_col, to_row, to_col) ==
    LET id       == At(P, from_row, from_col)
        piece    == P.pieces[id]
        captured == At(P, to_row, to_col)
        en_passant == piece.piece_type = PAWN
                      /\ <<to_row, to_col>> = P.en_passant_target
        castling == piece.piece_type = KING /\ Abs(to_col - from_col) = 2
        b1 == remove_en_passant(P.board, en_passant, from_row, to_col)
        rook == b1[Idx(from_row, IF to_col > from_col THEN 7 ELSE 0)]
        b2 == castle_rook(b1, castling, from_row, from_col, to_col)
        p2 == IF castling /\ rook # None
              THEN set_has_moved(P.pieces, rook)
              ELSE P.pieces
        target == next_en_passant_target(piece, from_row, from_col, to_row)
        b3 == [b2 EXCEPT ![Idx(to_row, to_col)] = id,
                         ![Idx(from_row, from_col)] = None]
        p3 == set_has_moved(p2, id)
        queen == Len(p3) + 1
    IN  [ pos |-> [ board  |-> IF promotes(piece, to_row)
                               THEN [b3 EXCEPT ![Idx(to_row, to_col)] = queen]
                               ELSE b3,
                    pieces |-> IF promotes(piece, to_row)
                               THEN Append(p3, [piece_type |-> QUEEN,
                                                color |-> piece.color,
                                                has_moved |-> TRUE])
                               ELSE p3,
                    en_passant_target |-> target ],
          is_capture |-> (captured # None \/ en_passant) ]

\* Variant of has_legal_moves that counts pseudo-legal moves.
has_legal_moves_raw(P, color) ==
    \E row \in 0..7 : \E col \in 0..7 :
        /\ At(P, row, col) # None
        /\ P.pieces[At(P, row, col)].color = color
        /\ Len(get_raw_moves(P, row, col)) > 0

\* Board.has_legal_moves
has_legal_moves(P, color) ==
    \E row \in 0..7 : \E col \in 0..7 :
        /\ At(P, row, col) # None
        /\ P.pieces[At(P, row, col)].color = color
        /\ Len(get_legal_moves(P, row, col)) > 0

\* ChessAI.get_all_moves: (from_row, from_col, to_row, to_col), origin
\* squares row-major, each square's moves in get_legal_moves order.
MovesOf(row, col, legal_moves) ==
    [k \in 1..Len(legal_moves) |->
        <<row, col, legal_moves[k][1], legal_moves[k][2]>>]

RECURSIVE AllRawMovesFrom(_, _, _)
AllRawMovesFrom(P, color, i) ==
    IF i > 64 THEN <<>>
    ELSE (IF P.board[i] # None /\ P.pieces[P.board[i]].color = color
          THEN MovesOf((i - 1) \div 8, (i - 1) % 8,
                       get_raw_moves(P, (i - 1) \div 8, (i - 1) % 8))
          ELSE <<>>)
         \o AllRawMovesFrom(P, color, i + 1)

\* Variant of get_all_moves that collects get_raw_moves of every piece.
get_all_moves_raw(P, color) == AllRawMovesFrom(P, color, 1)

RECURSIVE AllMovesFrom(_, _, _)
AllMovesFrom(P, color, i) ==
    IF i > 64 THEN <<>>
    ELSE (IF P.board[i] # None /\ P.pieces[P.board[i]].color = color
          THEN MovesOf((i - 1) \div 8, (i - 1) % 8,
                       get_legal_moves(P, (i - 1) \div 8, (i - 1) % 8))
          ELSE <<>>)
         \o AllMovesFrom(P, color, i + 1)

get_all_moves(P, color) == AllMovesFrom(P, color, 1)

\* ChessAI.make_temp_move: the Position after the call and the undo record.
\* castling_info is <<>> for None, and otherwise
\* (rook from row, rook from col, rook to row, rook to col, rook, old flag).
make_temp_move(P, from_row, from_col, to_row, to_col) ==
    LET id       == At(P, from_row, from_col)
        piece    == P.pieces[id]
        captured == At(P, to_row, to_col)
        en_passant == piece.piece_type = PAWN
                      /\ <<to_row, to_col>> = P.en_passant_target
        castling == piece.piece_type = KING /\ Abs(to_col - from_col) = 2
        b1 == IF en_passant
              THEN [P.board EXCEPT ![Idx(from_row, to_col)] = None]
              ELSE P.board
        rook_from == IF to_col > from_col THEN 7 ELSE 0
        rook_to   == IF to_col > from_col THEN 5 ELSE 3
        rook == b1[Idx(from_row, rook_from)]
        b2 == IF castling
              THEN [b1 EXCEPT ![Idx(from_row, rook_from)] = None,
                              ![Idx(from_row, rook_to)] = rook]
              ELSE b1
        p2 == IF castling /\ rook # None
              THEN [P.pieces EXCEPT ![rook].has_moved = TRUE]
              ELSE P.pieces
        target == IF piece.piece_type = PAWN /\ Abs(to_row - from_row) = 2
                  THEN <<(from_row + to_row) \div 2, from_col>>
                  ELSE NoSquare
    IN  [ pos |-> [ board  |-> [b2 EXCEPT ![Idx(to_row, to_col)] = id,
                                          ![Idx(from_row, from_col)] = None],
                    pieces |-> [p2 EXCEPT ![id].has_moved = TRUE],
                    en_passant_target |-> target ],
          undo |-> [ piece |-> id,
                     captured |-> captured,
                     from_pos |-> <<from_row, from_col>>,
                     to_pos |-> <<to_row, to_col>>,
                     old_en_passant |-> P.en_passant_target,
                     old_has_moved |-> piece.has_moved,
                     en_passant_captured |->
                         IF en_passant THEN At(P, from_row, to_col) ELSE None,
                     en_passant_pos |->
                         IF en_passant THEN <<from_row, to_col>> ELSE NoSquare,
                     castling_info |->
                         IF castling
                         THEN <<from_row, rook_from, from_row, rook_to, rook,
                                IF rook # None THEN P.pieces[rook].has_moved
                                               ELSE FALSE>>
                         ELSE <<>> ] ]

\* ChessAI.undo_temp_move, statement by statement.  Line 218 indexes the
\* grid with the rook's column as the row and its row as the column.
undo_temp_move(P, undo_info) ==
    LET piece == undo_info.piece
        from_row == undo_info.from_pos[1]
        from_col == undo_info.from_pos[2]
        to_row == undo_info.to_pos[1]
        to_col == undo_info.to_pos[2]
        b1 == [P.board EXCEPT ![Idx(from_row, from_col)] = piece,
                              ![Idx(to_row, to_col)] = undo_info.captured]
        p1 == [P.pieces EXCEPT ![piece].has_moved = undo_info.old_has_moved]
        b2 == IF undo_info.en_passant_captured # None
              THEN [b1 EXCEPT ![Idx(undo_info.en_passant_pos[1],
                                    undo_info.en_passant_pos[2])] =
                                  undo_info.en_passant_captured]
              ELSE b1
        info == undo_info.castling_info
    IN  IF info # <<>>
        THEN LET r_from_row == info[1]
                 r_from_col == info[2]
                 r_to_row   == info[3]
                 r_to_col   == info[4]
                 rook       == info[5]
                 old_moved  == info[6]
             IN  [ board  |-> [b2 EXCEPT ![Idx(r_from_col, r_from_row)] = None,
                                         ![Idx(r_to_row, r_to_col)] = None,
                                         ![Idx(r_from_row, r_from_col)] = rook],
                   pieces |-> [p1 EXCEPT ![rook].has_moved = old_moved],
                   en_passant_target |-> undo_info.old_en_passant ]
        ELSE [ board |-> b2, pieces |-> p1,
               en_passant_target |-> undo_info.old_en_passant ]

\* ai.py, lines 10-93: material values and piece-square tables.
PIECE_VALUES(piece_type) ==
    CASE piece_type = PAWN   -> 100
      [] piece_type = KNIGHT -> 320
      [] piece_type = BISHOP -> 330
      [] piece_type = ROOK   -> 500
      [] piece_type = QUEEN  -> 900
      [] piece_type = KING   -> 20000

PAWN_TABLE ==
    << <<0, 0, 0, 0, 0, 0, 0, 0>>,
       <<50, 50, 50, 50, 50, 50, 50, 50>>,
       <<10, 10, 20, 30, 30, 20, 10, 10>>,
       <<5, 5, 10, 25, 25, 10, 5, 5>>,
       <<0, 0, 0, 20, 20, 0, 0, 0>>,
       <<5, -5, -10, 0, 0, -10, -5, 5>>,
       <<5, 10, 10, -20, -20, 10, 10, 5>>,
       <<0, 0, 0, 0, 0, 0, 0, 0>> >>

KNIGHT_TABLE ==
    << <<-50, -40, -30, -30, -30, -30, -40, -50>>,
       <<-40, -20, 0, 0, 0, 0, -20, -40>>,
       <<-30, 0, 10, 15, 15, 10, 0, -30>>,
       <<-30, 5, 15, 20, 20, 15, 5, -30>>,
       <<-30, 0, 15, 20, 20, 15, 0, -30>>,
       <<-30, 5, 10, 15, 15, 10, 5, -30>>,
       <<-40, -20, 0, 5, 5, 0, -20, -40>>,
       <<-50, -40, -30, -30, -30, -30, -40, -50>> >>

BISHOP_TABLE ==
    << <<-20, -10, -10, -10, -10, -10, -10, -20>>,
       <<-10, 0, 0, 0, 0, 0, 0, -10>>,
       <<-10, 0, 5, 10, 10, 5, 0, -10>>,
       <<-10, 5, 5, 10, 10, 5, 5, -10>>,
       <<-10, 0, 10, 10, 10, 10, 0, -10>>,
       <<-10, 10, 10, 10, 10, 10, 10, -10>>,
       <<-10, 5, 0, 0, 0, 0, 5, -10>>,
       <<-20, -10, -10, -10, -10, -10, -10, -20>> >>

ROOK_TABLE ==
    << <<0, 0, 0, 0, 0, 0, 0, 0>>,
       <<5, 10, 10, 10, 10, 10, 10, 5>>,
       <<-5, 0, 0, 0, 0, 0, 0, -5>>,
       <<-5, 0, 0, 0, 0, 0, 0, -5>>,
       <<-5, 0, 0, 0, 0, 0, 0, -5>>,
       <<-5, 0, 0, 0, 0, 0, 0, -5>>,
       <<-5, 0, 0, 0, 0, 0, 0, -5>>,
       <<0, 0, 0, 5, 5, 0, 0, 0>> >>

QUEEN_TABLE ==
    << <<-20, -10, -10, -5, -5, -10, -10, -20>>,
       <<-10, 0, 0, 0, 0, 0, 0, -10>>,
       <<-10, 0, 5, 5, 5, 5, 0, -10>>,
       <<-5, 0, 5, 5, 5, 5, 0, -5>>,
       <<0, 0, 5, 5, 5, 5, 0, -5>>,
       <<-10, 5, 5, 5, 5, 5, 0, -10>>,
       <<-10, 0, 5, 0, 0, 0, 0, -10>>,
       <<-20, -10, -10, -5, -5, -10, -10, -20>> >>

KING_TABLE ==
    << <<-30, -40, -40, -50, -50, -40, -40, -30>>,
       <<-30, -40, -40, -50, -50, -40, -40, -30>>,
       <<-30, -40, -40, -50, -50, -40, -40, -30>>,
       <<-30, -40, -40, -50, -50, -40, -40, -30>>,
       <<-20, -30, -30, -40, -40, -30, -30, -20>>,
       <<-10, -20, -20, -20, -20, -20, -20, -10>>,
       <<20, 20, 0, 0, 0, 0, 20, 20>>,
       <<20, 30, 10, 0, 0, 10, 30, 20>> >>

PIECE_TABLES(piece_type) ==
    CASE piece_type = PAWN   -> PAWN_TABLE
      [] piece_type = KNIGHT -> KNIGHT_TABLE
      [] piece_type = BISHOP -> BISHOP_TABLE
      [] piece_type = ROOK   -> ROOK_TABLE
      [] piece_type = QUEEN  -> QUEEN_TABLE
      [] piece_type = KING   -> KING_TABLE

\* ChessAI.evaluate_board for an AI of the given color.
RECURSIVE EvaluateFrom(_, _, _)
EvaluateFrom(P, color, i) ==
    IF i > 64 THEN 0
    ELSE LET row == (i - 1) \div 8
             col == (i - 1) % 8
             id  == P.board[i]
             piece == P.pieces[id]
             value == PIECE_VALUES(piece.piece_type) +
                      (IF piece.color = WHITE
                       THEN PIECE_TABLES(piece.piece_type)[row + 1][col + 1]
                       ELSE PIECE_TABLES(piece.piece_type)[7 - row + 1][col + 1])
         IN  (IF id = None THEN 0
              ELSE IF piece.color = color THEN value ELSE -value)
             + EvaluateFrom(P, color, i + 1)

evaluate_board(P, color) == EvaluateFrom(P, color, 1)

(***************************************************************************)
(* The game: ChessGame (game.py) around one Board and, in AI mode, one     *)
(* ChessAI playing Black.                                                  *)
(***************************************************************************)
VARIABLES
    board,              \* Board.board
    pieces,             \* the Piece objects the squares refer to
    en_passant_target,  \* Board.en_passant_target
    game_mode,          \* ChessGame.game_mode: "human" or "ai"
    depth,              \* ChessAI.depth, from ChessGame.difficulty
    current_turn,       \* ChessGame.current_turn
    in_check,           \* ChessGame.in_check
    game_over,          \* ChessGame.game_over
    winner,             \* ChessGame.winner ("" is None)
    ai_thinking,        \* ChessGame.ai_thinking
    stack,              \* the active calls of ChessAI.minimax, innermost last
    ret,                \* (score, move) just returned by a minimax call, or <<>>
    crashed,            \* an AttributeError has ended the program
    script,             \* the moves the players at the board will still make
    resets,             \* how often the R key has reset the game
    player_color,       \* ChessGame.player_color ("" is None)
    pending_opponent_move,  \* ChessGame.pending_opponent_move
    rematch_pending,    \* ChessGame.rematch_pending
    taken,              \* update_online's local `move` after line 345
    inbox,              \* the messages the server will still deliver
    sent,               \* how many moves send_move has put on the queue
    heard,              \* the moves _on_opponent_move got while not game_over
    applied,            \* the moves update_online has applied to the board
    plies,              \* moves the players may still choose freely
    last,               \* history: the last operation applied to the Position
    games,              \* server: the entries of games, one per game id
    waiting_player,     \* server: the connection that waits for a match
    player_games,       \* server: the entries of player_games, one per connection
    closed,             \* server: the connections that are closed
    events,             \* server: how many messages and disconnects it handled
    served              \* history: what the server's last handler did

online_vars == << player_color, pending_opponent_move, rematch_pending, taken,
                 inbox, sent, heard, applied >>

server_vars == << games, waiting_player, player_games, closed, events, served >>

client_vars == << board, pieces, en_passant_target, game_mode, depth,
                 current_turn, in_check, game_over, winner, ai_thinking, stack,
                 ret, crashed, script, resets, plies, last, online_vars >>

vars == << client_vars, server_vars >>

\* Free moves chosen by the players at the board once their script is played.
MaxPly == 2

\* Presses of the R key.
MaxResets == 1

\* Calls of get_best_move that a client of ChessAI makes besides the game's.
MaxCalls == 2

\* float('inf') of get_best_move: larger than every score minimax handles.
Inf == 1000000000

\* The color ChessGame.reset_game gives the AI.
ai_color == BLACK
opponent_color == IF ai_color = WHITE THEN BLACK ELSE WHITE

\* Games played move by move from the standard setup.  GameA, GameB and GameC
\* are played by two people; the two openings are White's moves against the AI.
GameA ==
    << <<7, 1, 5, 0>>, <<0, 1, 2, 2>>, <<5, 0, 4, 2>>, <<1, 5, 2, 5>>, <<4, 2, 3, 0>>, <<2, 2, 3, 0>>,
       <<7, 6, 5, 5>>, <<3, 0, 2, 2>>, <<5, 5, 4, 7>>, <<2, 2, 3, 4>>, <<6, 6, 5, 6>>, <<3, 4, 5, 5>>,
       <<6, 4, 5, 5>>, <<0, 6, 2, 7>>, <<7, 5, 6, 4>>, <<2, 7, 0, 6>>, <<6, 4, 7, 5>>, <<0, 6, 2, 7>>,
       <<7, 3, 6, 4>>, <<2, 7, 3, 5>>, <<6, 4, 5, 3>>, <<3, 5, 5, 6>>, <<6, 5, 5, 6>>, <<2, 5, 3, 5>>,
       <<5, 3, 1, 3>>, <<0, 2, 1, 3>>, <<4, 7, 3, 5>>, <<1, 3, 3, 5>>, <<7, 5, 6, 4>>, <<0, 3, 6, 3>>,
       <<7, 2, 6, 3>>, <<3, 5, 6, 2>>, <<6, 3, 3, 0>>, <<6, 2, 4, 0>>, <<3, 0, 1, 2>>, <<4, 0, 6, 2>>,
       <<6, 0, 4, 0>>, <<6, 2, 4, 0>>, <<1, 2, 0, 1>>, <<1, 7, 2, 7>>, <<0, 1, 1, 0>>, <<1, 1, 3, 1>>,
       <<6, 4, 3, 1>>, <<4, 0, 3, 1>>, <<1, 0, 2, 1>>, <<3, 1, 1, 3>>, <<2, 1, 1, 2>>, <<1, 3, 2, 4>>,
       <<5, 6, 4, 6>>, <<2, 4, 4, 6>>, <<5, 5, 4, 6>>, <<2, 7, 3, 7>>, <<4, 6, 3, 7>>, <<1, 4, 3, 4>>,
       <<1, 2, 3, 4>>, <<0, 5, 2, 3>>, <<3, 4, 1, 6>>, <<2, 3, 6, 7>>, <<1, 6, 3, 4>>, <<6, 7, 3, 4>>,
       <<6, 1, 4, 1>>, <<3, 4, 1, 2>>, <<3, 7, 2, 7>> >>

GameB ==
    << <<6, 1, 4, 1>>, <<0, 1, 2, 0>>, <<6, 0, 4, 0>>, <<2, 0, 4, 1>>, <<6, 6, 5, 6>>, <<4, 1, 6, 2>>,
       <<7, 3, 6, 2>>, <<0, 6, 2, 5>>, <<6, 2, 7, 3>>, <<2, 5, 3, 3>>, <<6, 4, 5, 4>>, <<3, 3, 2, 5>>,
       <<5, 4, 4, 4>>, <<2, 5, 4, 4>>, <<5, 6, 4, 6>>, <<4, 4, 6, 3>>, <<7, 1, 6, 3>>, <<0, 0, 0, 1>>,
       <<7, 5, 6, 6>>, <<0, 1, 0, 0>>, <<6, 7, 4, 7>>, <<0, 0, 0, 1>>, <<6, 3, 4, 2>>, <<0, 7, 0, 6>>,
       <<7, 3, 1, 3>>, <<0, 3, 1, 3>>, <<7, 7, 6, 7>>, <<1, 3, 4, 0>>, <<6, 5, 4, 5>>, <<0, 2, 4, 6>>,
       <<7, 0, 4, 0>>, <<4, 6, 3, 5>>, <<4, 0, 1, 0>>, <<3, 5, 2, 4>>, <<1, 0, 1, 1>>, <<0, 1, 1, 1>>,
       <<6, 6, 1, 1>>, <<2, 4, 4, 2>>, <<4, 7, 3, 7>>, <<4, 2, 3, 3>>, <<1, 1, 3, 3>>, <<0, 4, 0, 3>>,
       <<3, 3, 1, 5>>, <<0, 3, 1, 3>>, <<1, 5, 0, 6>>, <<1, 3, 2, 3>>, <<4, 5, 3, 5>>, <<2, 3, 3, 4>>,
       <<0, 6, 1, 7>>, <<3, 4, 4, 4>>, <<3, 5, 2, 5>>, <<4, 4, 3, 3>>, <<6, 7, 6, 3>>, <<3, 3, 3, 4>>,
       <<2, 5, 1, 4>> >>

GameC ==
    << <<7, 1, 5, 0>>, <<1, 2, 2, 2>>, <<5, 0, 7, 1>>, <<1, 1, 3, 1>>, <<7, 6, 5, 5>>, <<3, 1, 4, 1>>,
       <<5, 5, 3, 4>>, <<1, 0, 2, 0>>, <<3, 4, 1, 5>>, <<1, 3, 3, 3>>, <<1, 5, 0, 7>>, <<3, 3, 4, 3>>,
       <<0, 7, 1, 5>>, <<0, 4, 1, 5>>, <<7, 1, 5, 2>>, <<4, 1, 5, 2>>, <<7, 7, 7, 6>>, <<5, 2, 6, 3>>,
       <<7, 4, 6, 3>>, <<1, 6, 3, 6>>, <<7, 3, 7, 4>>, <<0, 2, 3, 5>>, <<6, 3, 7, 3>>, <<3, 5, 6, 2>>,
       <<7, 3, 6, 2>>, <<2, 2, 3, 2>>, <<6, 2, 7, 3>>, <<1, 4, 2, 4>>, <<7, 6, 7, 7>>, <<2, 4, 3, 4>>,
       <<7, 2, 4, 5>>, <<3, 4, 4, 5>>, <<7, 3, 7, 2>>, <<3, 6, 4, 6>>, <<7, 2, 7, 1>>, <<0, 3, 0, 2>>,
       <<7, 4, 4, 1>>, <<3, 2, 4, 1>>, <<7, 7, 7, 6>>, <<1, 7, 2, 7>>, <<7, 6, 7, 7>>, <<4, 1, 5, 1>>,
       <<7, 7, 7, 6>>, <<5, 1, 6, 0>>, <<7, 0, 6, 0>>, <<4, 6, 5, 6>>, <<6, 0, 2, 0>>, <<5, 6, 6, 5>>,
       <<2, 0, 2, 1>>, <<0, 5, 2, 3>>, <<2, 1, 0, 1>>, <<0, 2, 7, 2>>, <<7, 1, 7, 2>>, <<0, 0, 2, 0>>,
       <<0, 1, 0, 6>>, <<1, 5, 0, 6>>, <<7, 2, 7, 3>>, <<2, 3, 4, 1>>, <<7, 3, 7, 2>>, <<4, 1, 5, 2>>,
       <<6, 1, 5, 2>>, <<2, 0, 2, 2>>, <<7, 2, 6, 2>>, <<4, 3, 5, 2>>, <<7, 6, 7, 7>>, <<2, 7, 3, 7>>,
       <<6, 2, 7, 3>>, <<3, 7, 4, 7>>, <<7, 3, 6, 2>>, <<4, 7, 5, 7>>, <<6, 2, 5, 3>>, <<5, 2, 6, 2>>,
       <<5, 3, 6, 3>>, <<5, 7, 6, 6>> >>

GameD ==
    << <<7, 1, 5, 2>>, <<0, 1, 2, 0>>, <<5, 2, 7, 1>>, <<2, 0, 0, 1>>, <<7, 1, 5, 0>>, <<1, 7, 2, 7>>,
       <<7, 0, 7, 1>>, <<0, 1, 2, 0>>, <<5, 0, 3, 1>>, <<2, 7, 3, 7>>, <<3, 1, 1, 0>>, <<1, 2, 3, 2>>,
       <<1, 0, 0, 2>>, <<2, 0, 0, 1>>, <<0, 2, 1, 4>>, <<0, 3, 0, 2>>, <<1, 4, 0, 2>>, <<1, 1, 3, 1>>,
       <<0, 2, 1, 4>>, <<1, 5, 2, 5>>, <<1, 4, 0, 6>>, <<0, 0, 1, 0>>, <<0, 6, 2, 5>>, <<0, 4, 1, 5>>,
       <<2, 5, 3, 7>>, <<1, 3, 3, 3>>, <<3, 7, 1, 6>>, <<0, 5, 2, 3>>, <<7, 6, 5, 5>>, <<1, 5, 0, 5>>,
       <<1, 6, 3, 7>>, <<1, 0, 1, 6>>, <<3, 7, 1, 6>>, <<2, 3, 1, 4>>, <<5, 5, 4, 7>>, <<0, 7, 0, 6>>,
       <<7, 7, 7, 6>>, <<0, 1, 1, 3>>, <<4, 7, 3, 5>>, <<1, 3, 0, 1>>, <<3, 5, 1, 4>>, <<0, 1, 2, 2>>,
       <<1, 4, 0, 6>>, <<2, 2, 4, 1>>, <<1, 6, 3, 5>>, <<4, 1, 5, 3>>, <<6, 2, 5, 3>>, <<3, 3, 4, 3>>,
       <<3, 5, 4, 3>>, <<0, 5, 1, 6>>, <<4, 3, 3, 1>>, <<1, 6, 1, 7>>, <<7, 1, 7, 0>>, <<3, 2, 4, 2>>,
       <<7, 0, 7, 1>>, <<1, 7, 2, 6>>, <<3, 1, 1, 0>>, <<2, 6, 1, 7>>, <<0, 6, 2, 5>>, <<1, 7, 2, 7>>,
       <<2, 5, 1, 7>>, <<2, 7, 3, 7>>, <<1, 7, 3, 6>>, <<3, 7, 2, 7>>, <<1, 0, 0, 2>>, <<2, 7, 1, 6>>,
       <<3, 6, 1, 5>>, <<4, 2, 5, 2>>, <<0, 2, 2, 3>>, <<1, 6, 0, 5>>, <<7, 3, 4, 0>>, <<0, 5, 1, 4>>,
       <<4, 0, 4, 6>>, <<5, 2, 6, 2>>, <<1, 5, 0, 7>>, <<1, 4, 2, 5>>, <<4, 6, 4, 5>>, <<2, 5, 1, 6>>,
       <<4, 5, 4, 0>>, <<1, 6, 0, 6>>, <<4, 0, 6, 2>>, <<0, 6, 1, 6>>, <<6, 2, 5, 1>>, <<1, 6, 0, 7>>,
       <<5, 1, 1, 5>> >>

\* White f-pawn one step, Black e-pawn, White g-pawn two steps, Black queen
\* to h4.
FoolsMate ==
    << <<6, 5, 5, 5>>, <<1, 4, 3, 4>>, <<6, 6, 4, 6>>, <<0, 3, 4, 7>> >>

OpeningEasy ==
    << <<7, 1, 5, 2>>, <<6, 3, 5, 3>>, <<7, 2, 3, 6>>, <<7, 3, 6, 3>>, <<7, 4, 7, 2>>, <<7, 2, 7, 1>>,
       <<7, 1, 7, 0>> >>

\* White's moves of a game in which the depth-1 AI is checkmated.
OpeningMate ==
    << <<6, 4, 4, 4>>, <<7, 3, 5, 5>>, <<7, 5, 4, 2>>, <<4, 2, 1, 5>> >>

\* 1.Nf3 d5 2.g3 d4 3.Bg2 d3 4.a3 dxe2 5.O-O, played by two people: a Black
\* pawn stands on e2 when White castles.
GameE ==
    << <<7, 6, 5, 5>>, <<1, 3, 3, 3>>, <<6, 6, 5, 6>>, <<3, 3, 4, 3>>,
       <<7, 5, 6, 6>>, <<4, 3, 5, 3>>, <<6, 0, 5, 0>>, <<5, 3, 6, 4>>,
       <<7, 4, 7, 6>> >>

OpeningShort ==
    << <<6, 4, 4, 4>> >>

OpeningMedium ==
    << <<6, 3, 4, 3>>, <<7, 1, 5, 2>>, <<7, 2, 5, 4>>, <<7, 3, 6, 3>> >>

\* depth of difficulty_settings in reset_game
difficulty_depth(difficulty) ==
    CASE difficulty = "easy"   -> 1
      [] difficulty = "medium" -> 2
      [] difficulty = "hard"   -> 3
      [] OTHER -> 2

\* A message of the server for the local client.  `after` is the number of
\* local moves the peer has received when it sends the message, and `id`
\* numbers the messages of a game in the order of their arrival.
Msg(type, move, color, after, id) ==
    [type |-> type, move |-> move, color |-> color, after |-> after, id |-> id]

NoMsg == Msg("none", <<>>, "", 0, 0)

\* The local player's clicks in an online game: 1.f3 and 2.g4 with White,
\* and 1...e5 with Black after a rematch.
OnlineClicks == << <<6,5,5,5>>, <<6,6,4,6>>, <<1,4,3,4>> >>

\* A peer that mates with 1...e5 2...Qh4, sends one more move after the
\* mate, and opens the rematch, in which the colors are exchanged, with 1.e4.
OnlineMate ==
    << Msg("opponent_move", <<1,4,3,4>>, "", 1, 1),
       Msg("opponent_move", <<0,3,4,7>>, "", 2, 2),
       Msg("opponent_move", <<1,0,2,0>>, "", 2, 3),
       Msg("rematch_start", <<>>, "black", 2, 4),
       Msg("opponent_move", <<6,4,4,4>>, "", 2, 5) >>

\* A peer whose two moves 1...e5 and 2...d6 reach the server one after the
\* other, both after the local player's first move: the server passes every
\* move on without looking at the turn.
OnlineHasty ==
    << Msg("opponent_move", <<1,4,3,4>>, "", 1, 1),
       Msg("opponent_move", <<1,3,2,3>>, "", 1, 2) >>

Scenarios ==
    { [game_mode |-> "human", difficulty |-> "none", script |-> GameA, plies |-> MaxPly,
        player_color |-> "", inbox |-> <<>>],
      [game_mode |-> "human", difficulty |-> "none", script |-> GameB, plies |-> MaxPly,
        player_color |-> "", inbox |-> <<>>],
      [game_mode |-> "human", difficulty |-> "none", script |-> GameC, plies |-> MaxPly,
        player_color |-> "", inbox |-> <<>>],
      [game_mode |-> "human", difficulty |-> "none", script |-> GameD, plies |-> MaxPly,
        player_color |-> "", inbox |-> <<>>],
      [game_mode |-> "human", difficulty |-> "none", script |-> FoolsMate, plies |-> MaxPly,
        player_color |-> "", inbox |-> <<>>],
      [game_mode |-> "human", difficulty |-> "none", script |-> GameE, plies |-> 0,
        player_color |-> "", inbox |-> <<>>],
      [game_mode |-> "ai", difficulty |-> "easy", script |-> OpeningEasy, plies |-> 0,
        player_color |-> "", inbox |-> <<>>],
      [game_mode |-> "ai", difficulty |-> "easy", script |-> OpeningMate, plies |-> 0,
        player_color |-> "", inbox |-> <<>>],
      [game_mode |-> "ai", difficulty |-> "easy", script |-> OpeningShort, plies |-> 0,
        player_color |-> "", inbox |-> <<>>],
      [game_mode |-> "ai", difficulty |-> "medium", script |-> OpeningShort, plies |-> 0,
        player_color |-> "", inbox |-> <<>>],
      [game_mode |-> "ai", difficulty |-> "medium", script |-> OpeningMedium, plies |-> 0,
        player_color |-> "", inbox |-> <<>>],
      [game_mode |-> "online", difficulty |-> "none", script |-> OnlineClicks,
        plies |-> 0, player_color |-> "white", inbox |-> OnlineMate],
      [game_mode |-> "online", difficulty |-> "none", script |-> OnlineClicks,
        plies |-> 0, player_color |-> "white", inbox |-> OnlineHasty] }

Position ==
    [board |-> board, pieces |-> pieces, en_passant_target |-> en_passant_target]

SetPosition(P) ==
    /\ board' = P.board
    /\ pieces' = P.pieces
    /\ en_passant_target' = P.en_passant_target

NoMove == <<>>

NoUndo ==
    [ piece |-> None, captured |-> None, from_pos |-> NoSquare, to_pos |-> NoSquare,
      old_en_passant |-> NoSquare, old_has_moved |-> FALSE,
      en_passant_captured |-> None, en_passant_pos |-> NoSquare,
      castling_info |-> <<>> ]

\* What `last` records: the operation, its move, the color that moved, the
\* Position before it (for an undo: before the apply it undoes), whether an
\* undo directly followed its apply, make_move's return value, the operation
\* and move before this one, the Position get_best_move was called on, the
\* numbers of make_temp_move, undo_temp_move and cut-offs since that call, and
\* the calls of get_best_move that have returned, each with its root
\* Position, depth, returned move, whether random.choice picked it, and
\* whether a client made it.
History(op, move, color, before, leaf, is_capture, prev, root, search, calls) ==
    [ op |-> op, move |-> move, color |-> color, before |-> before,
      leaf |-> leaf, is_capture |-> is_capture, prev |-> prev, root |-> root,
      search |-> search, calls |-> calls ]

NoSearch == [applies |-> 0, undos |-> 0, cuts |-> 0]

Last(op, move, color, before, leaf, is_capture) ==
    History(op, move, color, before, leaf, is_capture,
            [op |-> last.op, move |-> last.move, color |-> last.color],
            IF op = "search" THEN before ELSE last.root,
            CASE op = "search" -> NoSearch
              [] op = "make_temp_move" ->
                    [last.search EXCEPT !.applies = @ + 1]
              [] op = "undo_temp_move" ->
                    [last.search EXCEPT !.undos = @ + 1]
              [] OTHER -> last.search,
            last.calls)

\* The record of a call of get_best_move that returns `move` now.
Call(move, random, client) ==
    [ root |-> last.root, depth |-> depth, move |-> move, random |-> random,
      client |-> client ]

(***************************************************************************)
(* The relay server (server/server.py).  A connection is a number, the     *)
(* game id "game_n" is the number n, and a dictionary is the set of its    *)
(* entries, with one entry per key.  A handler runs from its message to    *)
(* its last statement without another handler in between.                  *)
(***************************************************************************)
MaxConns == 4
MaxEvents == 6

Conns == 1..MaxConns
NoConn == 0
NoGame == -1
GameIds == 0..(MaxConns \div 2)

GameIdsInUse == {g.id : g \in games}
HasGame(id) == id \in GameIdsInUse
Game(id) == CHOOSE g \in games : g.id = id
Tracked == {e.ws : e \in player_games}
Info(ws) == CHOOSE e \in player_games : e.ws = ws
Player(game, color) == IF color = "white" THEN game.white ELSE game.black
OtherColor(color) == IF color = "white" THEN "black" ELSE "white"

\* What a handler did: the connection and the game id of the message, the
\* game recorded for the sender in player_games when the message arrived
\* and the other player of that game, the id under which a game was created
\* and whether games held an entry under it, the connections that were sent
\* opponent_move or opponent_resigned, and the ids whose entries were
\* deleted.
Served(op, ws, game_id, created, replaced, to, deleted) ==
    LET own == IF ws \in Tracked THEN Info(ws).game_id ELSE NoGame
    IN  [ op |-> op, ws |-> ws, game_id |-> game_id, own |-> own,
          peer |-> IF own # NoGame /\ HasGame(own)
                   THEN Player(Game(own), OtherColor(Info(ws).color))
                   ELSE NoConn,
          created |-> created, replaced |-> replaced, to |-> to,
          deleted |-> deleted ]

\* games[id] = {...}: the entry under id, if there is one, is replaced.
StoreGame(table, id, white, black) ==
    {g \in table : g.id # id}
        \cup {[id |-> id, white |-> white, black |-> black, rematch_requests |-> {}]}

\* player_games[ws] = {...}
Track(table, ws, id, color) ==
    {e \in table : e.ws # ws} \cup {[ws |-> ws, game_id |-> id, color |-> color]}

\* f"game_{len(games)}" (server.py, lines 44 and 133).
new_game_id(table) == Cardinality(table)

\* find_match (server.py, 32-73) from a connection that is in no game and
\* does not wait already: it waits, or a game is created for the waiting
\* player (white) and this one (black).
FindMatch(ws) ==
    /\ ws \notin closed
    /\ ws \notin Tracked /\ ws # waiting_player
    /\ IF waiting_player = NoConn \/ waiting_player \in closed
       THEN /\ waiting_player' = ws
            /\ served' = Served("waiting", ws, NoGame, NoGame, FALSE, {}, {})
            /\ UNCHANGED << games, player_games >>
       ELSE LET game_id == new_game_id(games)
            IN  /\ games' = StoreGame(games, game_id, waiting_player, ws)
                /\ player_games' = Track(Track(player_games, waiting_player,
                                               game_id, "white"),
                                         ws, game_id, "black")
                /\ waiting_player' = NoConn
                /\ served' = Served("game_start", ws, NoGame, game_id,
                                    HasGame(game_id), {}, {})
    /\ UNCHANGED closed

\* The game a move or resign message is handled in (server.py, lines 77-80
\* and 92-95): the one named by the message.
handled_game_id(game_id, info) == game_id

\* move (server.py, 75-89) with the game id the message carries.
Move(ws, game_id) ==
    /\ ws \notin closed
    /\ IF HasGame(game_id) /\ ws \in Tracked
       THEN LET game == Game(handled_game_id(game_id, Info(ws)))
                opponent_ws == Player(game, OtherColor(Info(ws).color))
            IN  served' = Served("move", ws, game_id, NoGame,
                                 FALSE,
                                 IF opponent_ws \notin closed
                                 THEN {opponent_ws} ELSE {}, {})
       ELSE served' = Served("move", ws, game_id,
                             NoGame, FALSE, {}, {})
    /\ UNCHANGED << games, waiting_player, player_games, closed >>

\* resign (server.py, 91-107) with the game id the message carries.
Resign(ws, game_id) ==
    /\ ws \notin closed
    /\ IF HasGame(game_id) /\ ws \in Tracked
       THEN LET id == handled_game_id(game_id, Info(ws))
                game == Game(id)
                opponent_ws == Player(game, OtherColor(Info(ws).color))
            IN  /\ served' = Served("resign", ws, game_id,
                                    NoGame, FALSE,
                                    IF opponent_ws \notin closed
                                    THEN {opponent_ws} ELSE {}, {id})
                /\ player_games' = {e \in player_games :
                                       e.ws # opponent_ws /\ e.ws # ws}
                /\ games' = {g \in games : g.id # id}
       ELSE /\ served' = Served("resign", ws, game_id,
                                NoGame, FALSE, {}, {})
            /\ UNCHANGED << games, player_games >>
    /\ UNCHANGED << waiting_player, closed >>

\* rematch_request (server.py, 109-163): the sender's color is added to the
\* rematch_requests of its game; when both colors are there, a game with
\* the colors exchanged is stored under a new id, and the old game is
\* deleted.
RematchRequest(ws) ==
    /\ ws \notin closed
    /\ IF ws \in Tracked /\ HasGame(Info(ws).game_id)
       THEN LET game_id == Info(ws).game_id
                game == Game(game_id)
                requests == game.rematch_requests \cup {Info(ws).color}
                asked == {g \in games : g.id # game_id}
                             \cup {[game EXCEPT !.rematch_requests = requests]}
                new_id == new_game_id(games)
            IN  IF Cardinality(requests) >= 2
                THEN /\ games' = {g \in StoreGame(asked, new_id, game.black,
                                                   game.white) : g.id # game_id}
                     /\ player_games' = Track(Track(player_games, game.black,
                                                    new_id, "white"),
                                              game.white, new_id, "black")
                     /\ served' = Served("rematch_start", ws, NoGame,
                                         new_id, HasGame(new_id), {}, {game_id})
                ELSE /\ games' = asked
                     /\ served' = Served("rematch_requested", ws, NoGame,
                                         NoGame, FALSE, {}, {})
                     /\ UNCHANGED player_games
       ELSE /\ served' = Served("rematch_request", ws, NoGame, NoGame,
                                FALSE, {}, {})
            /\ UNCHANGED << games, player_games >>
    /\ UNCHANGED << waiting_player, closed >>

\* The connection closes, and the handler's finally block cleans up
\* (server.py, 171-193).
Disconnect(ws) ==
    /\ ws \notin closed
    /\ closed' = closed \cup {ws}
    /\ waiting_player' = IF waiting_player = ws THEN NoConn ELSE waiting_player
    /\ IF ws \in Tracked
       THEN LET game_id == Info(ws).game_id
            IN  IF HasGame(game_id)
                THEN LET opponent_ws ==
                             Player(Game(game_id), OtherColor(Info(ws).color))
                     IN  /\ player_games' = {e \in player_games :
                                                e.ws # opponent_ws /\ e.ws # ws}
                         /\ games' = {g \in games : g.id # game_id}
                         /\ served' = Served("disconnect", ws, NoGame,
                                             NoGame, FALSE, {}, {game_id})
                ELSE /\ player_games' = {e \in player_games : e.ws # ws}
                     /\ games' = games
                     /\ served' = Served("disconnect", ws, NoGame,
                                         NoGame, FALSE, {}, {})
       ELSE /\ served' = Served("disconnect", ws, NoGame, NoGame,
                                FALSE, {}, {})
            /\ UNCHANGED << games, player_games >>

\* The server's globals when the module is loaded (server.py, 13-16): no
\* game, nobody waiting, no connection.
ServerStart ==
    /\ games = {}
    /\ waiting_player = NoConn
    /\ player_games = {}
    /\ closed = {}
    /\ events = 0
    /\ served = Served("none", NoConn, NoGame, NoGame, FALSE, {}, {})

\* ChessGame.__init__ -> reset_game: a new Board and, in AI mode, a ChessAI.
GameStart(sc) ==
    /\ board = setup_board.board
    /\ pieces = setup_board.pieces
    /\ en_passant_target = setup_board.en_passant_target
    /\ game_mode = sc.game_mode
    /\ depth = difficulty_depth(sc.difficulty)
    /\ current_turn = WHITE
    /\ in_check = FALSE
    /\ game_over = FALSE
    /\ winner = ""
    /\ ai_thinking = FALSE
    /\ stack = <<>>
    /\ ret = <<>>
    /\ crashed = FALSE
    /\ script = sc.script
    /\ resets = 0
    /\ plies = sc.plies
    /\ player_color = sc.player_color
    /\ pending_opponent_move = NoMsg
    /\ rematch_pending = FALSE
    /\ taken = NoMsg
    /\ inbox = sc.inbox
    /\ sent = 0
    /\ heard = <<>>
    /\ applied = <<>>
    /\ last = History("init", NoMove, "", setup_board, FALSE, FALSE,
                      [op |-> "none", move |-> NoMove, color |-> ""],
                      setup_board, NoSearch, <<>>)

\* One game on this machine; the server is the one the online game talks to
\* and is not followed here.
Init == ServerStart /\ \E sc \in Scenarios : GameStart(sc)

\* Variant of check_game_over that names the side without moves the winner.
check_game_over_wrong_winner(has_moves) ==
    /\ game_over' = IF ~has_moves THEN TRUE ELSE game_over
    /\ winner' = IF ~has_moves /\ in_check' THEN current_turn' ELSE winner

\* check_game_over, given has_legal_moves(current_turn) after the move.
check_game_over(has_moves) ==
    /\ game_over' = IF ~has_moves THEN TRUE ELSE game_over
    /\ winner' = IF ~has_moves /\ in_check'
                 THEN (IF current_turn' = WHITE THEN BLACK ELSE WHITE)
                 ELSE winner

\* ChessGame.make_move (game.py, 263-292) on a move whose origin holds a
\* piece: Board.make_move, the turn change, in_check, check_game_over, and
\* the start of the AI's thinking.  Sounds, histories and the selection are
\* not modelled.
GameMakeMove(move, calls) ==
    LET r == make_move(Position, move[1], move[2], move[3], move[4])
    IN  /\ SetPosition(r.pos)
        /\ current_turn' = IF current_turn = WHITE THEN BLACK ELSE WHITE
        /\ in_check' = is_in_check(Position', current_turn')
        /\ check_game_over(has_legal_moves(Position', current_turn'))
        /\ last' = [Last("make_move", move, current_turn, Position, FALSE,
                         r.is_capture)
                      EXCEPT !.calls = calls]

\* Variant of my_color in which the local player is always White.
my_color_white(color) == WHITE

\* my_color of handle_click (game.py, line 234).
my_color(color) == IF color = "white" THEN WHITE ELSE BLACK

\* ChessGame.handle_click, twice: the click that selects a piece of the side
\* to move and stores get_legal_moves in valid_moves, and the click on one of
\* those squares.  Nothing else runs between the two clicks.  In an online
\* game the click is handled between two calls of update_online, and
\* make_move sends the move to the server.
HandleClick ==
    /\ ~crashed
    /\ UNCHANGED << resets, player_color, pending_opponent_move,
                    rematch_pending, taken, inbox, heard, applied, server_vars >>
    /\ stack = <<>> /\ ret = <<>>
    /\ ~game_over
    /\ ~(game_mode = "ai" /\ current_turn = BLACK)
    /\ game_mode = "online" => current_turn = my_color(player_color) /\ taken = NoMsg
    /\ sent' = IF game_mode = "online" THEN sent + 1 ELSE sent
    /\ \E row \in 0..7, col \in 0..7 :
          /\ At(Position, row, col) # None
          /\ pieces[At(Position, row, col)].color = current_turn
          /\ IF script # <<>>
             THEN <<row, col>> = <<script[1][1], script[1][2]>>
             ELSE plies > 0
          /\ \E move \in Range(MovesOf(row, col, get_legal_moves(Position, row, col))) :
                 /\ script # <<>> => move = script[1]
                 /\ GameMakeMove(move, last.calls)
                 /\ ai_thinking' =
                       IF game_mode = "ai" /\ current_turn' = BLACK /\ ~game_over'
                       THEN TRUE ELSE ai_thinking
    /\ script' = IF script # <<>> THEN Tail(script) ELSE script
    /\ plies' = IF script # <<>> THEN plies ELSE plies - 1
    /\ UNCHANGED << game_mode, depth, stack, ret, crashed >>

(***************************************************************************)
(* ChessAI.get_best_move, step by step.  A frame of `stack` is one call of *)
(* minimax that is iterating its moves: its arguments, its local variables *)
(* and, while a recursive call is running, the undo record of the move it  *)
(* applied (`before` is history: the Position before that apply).          *)
(***************************************************************************)
Max(a, b) == IF a >= b THEN a ELSE b
Min(a, b) == IF a <= b THEN a ELSE b

\* Variant of cut_off with the comparison turned round.
cut_off_reversed(alpha, beta) == alpha <= beta

\* The test that leaves minimax's loop early (ai.py, lines 251 and 267).
cut_off(alpha, beta) == beta <= alpha

\* Variant of worst_eval with the two signs exchanged.
worst_eval_swapped(maximizing) == IF maximizing THEN Inf ELSE -Inf

\* max_eval = -inf, min_eval = inf before the loop (ai.py, lines 240 and 256).
worst_eval(maximizing) == IF maximizing THEN -Inf ELSE Inf

\* Variant of improves in which an equal score replaces the best move too.
improves_or_equals(eval_score, best_eval, maximizing) ==
    IF maximizing THEN eval_score >= best_eval ELSE eval_score <= best_eval

\* eval_score > max_eval, eval_score < min_eval (ai.py, lines 246 and 262).
improves(eval_score, best_eval, maximizing) ==
    IF maximizing THEN eval_score > best_eval ELSE eval_score < best_eval

\* Variant of no_moves_score that gives the mate score without looking for
\* check.
no_moves_score_always_mate(P, current_color, maximizing) ==
    IF maximizing THEN -100000 ELSE 100000

\* The score of a node without moves (ai.py, lines 231-235): checkmate of
\* the side to move, or stalemate.
no_moves_score(P, current_color, maximizing) ==
    IF is_in_check(P, current_color)
    THEN (IF maximizing THEN -100000 ELSE 100000)
    ELSE 0

\* minimax up to the start of its loop (ai.py, 225-240 and 256), on Position
\* P: the value it returns at once, or the frame with which it starts to loop.
MinimaxLoop(P, d, alpha, beta, maximizing, current_color, moves) ==
    IF moves = <<>>
    THEN [returns |-> TRUE,
          ret |-> <<no_moves_score(P, current_color, maximizing), NoMove>>]
    ELSE [returns |-> FALSE,
          frame |-> [ depth |-> d, alpha |-> alpha, beta |-> beta,
                      maximizing |-> maximizing, moves |-> moves, i |-> 1,
                      best_eval |-> worst_eval(maximizing),
                      best_move |-> NoMove,
                      undo |-> NoUndo, before |-> P ]]

MinimaxCall(P, d, alpha, beta, maximizing) ==
    IF d = 0
    THEN [returns |-> TRUE, ret |-> <<evaluate_board(P, ai_color), NoMove>>]
    ELSE MinimaxLoop(P, d, alpha, beta, maximizing,
                     IF maximizing THEN ai_color ELSE opponent_color,
                     get_all_moves(P, IF maximizing THEN ai_color
                                                    ELSE opponent_color))

\* The caller's side of a call of minimax: the value is kept in `ret` when
\* the call returns at once, and a frame is pushed when it starts to loop.
Enter(frames, call) ==
    IF call.returns
    THEN stack' = frames /\ ret' = call.ret
    ELSE stack' = Append(frames, call.frame) /\ ret' = <<>>

\* ChessGame.update_ai up to the call of get_best_move, and get_best_move's
\* call of minimax(self.depth, -inf, inf, True).  The delay timer has run out.
UpdateAiBegin ==
    /\ ~crashed
    /\ UNCHANGED << resets, online_vars, server_vars >>
    /\ game_mode = "ai"
    /\ stack = <<>> /\ ret = <<>>
    /\ ai_thinking /\ ~game_over
    /\ Enter(<<>>, MinimaxCall(Position, depth, -Inf, Inf, TRUE))
    /\ last' = Last("search", NoMove, ai_color, Position, FALSE, FALSE)
    /\ UNCHANGED << board, pieces, en_passant_target, game_mode, depth,
                    current_turn, in_check, game_over, winner, ai_thinking,
                    crashed, script, plies >>

\* make_temp_move raises AttributeError when the origin square is empty
\* (piece.has_moved, line 149) or when a two-column king move finds no rook
\* on the corner (rook.has_moved, lines 164 and 170); Board.make_move does on
\* the same moves (piece.piece_type, line 282; rook.has_moved, 292 and 297).
MoveFaults(P, move) ==
    LET id == At(P, move[1], move[2])
    IN  \/ id = None
        \/ /\ P.pieces[id].piece_type = KING
           /\ Abs(move[4] - move[2]) = 2
           /\ At(P, move[1], IF move[4] > move[2] THEN 7 ELSE 0) = None

\* One iteration of minimax's loop up to the recursive call: make_temp_move
\* of the next move and the callee's MinimaxCall (lines 242-243, 258-259).
SearchApply ==
    /\ ~crashed
    /\ UNCHANGED << resets, online_vars, server_vars >>
    /\ stack # <<>> /\ ret = <<>>
    /\ LET f    == stack[Len(stack)]
           move == f.moves[f.i]
       IN  IF MoveFaults(Position, move)
           THEN /\ crashed' = TRUE
                /\ last' = Last("fault", move, "", Position, FALSE, FALSE)
                /\ UNCHANGED << board, pieces, en_passant_target, stack, ret >>
           ELSE LET t == make_temp_move(Position, move[1], move[2], move[3], move[4])
                    waiting == [f EXCEPT !.undo = t.undo, !.before = Position]
                IN  /\ SetPosition(t.pos)
                    /\ Enter([stack EXCEPT ![Len(stack)] = waiting],
                             MinimaxCall(t.pos, f.depth - 1, f.alpha, f.beta,
                                         ~f.maximizing))
                    /\ last' = Last("make_temp_move", move,
                                    pieces[At(Position, move[1], move[2])].color,
                                    Position, FALSE, FALSE)
                    /\ crashed' = crashed
    /\ UNCHANGED << game_mode, depth, current_turn, in_check, game_over, winner,
                    ai_thinking, script, plies >>

\* The statements of one iteration after the recursive call (lines 244-252
\* and 260-268), in frame f on Position P: undo_temp_move, the best score and
\* move, alpha or beta, and the cut-off test.
IterationRest(P, f, eval_score, alpha, beta, better) ==
    [ pos |-> undo_temp_move(P, f.undo), undone |-> TRUE,
      best_eval |-> IF better THEN eval_score ELSE f.best_eval,
      best_move |-> IF better THEN f.moves[f.i] ELSE f.best_move,
      alpha |-> alpha, beta |-> beta,
      cut |-> cut_off(alpha, beta) ]

\* Variant of after_call that makes the cut-off test before undo_temp_move,
\* and leaves the loop with the move still applied.
after_call_cut_first(P, f, eval_score) ==
    LET r == IterationRest(P, f, eval_score,
                 IF f.maximizing THEN Max(f.alpha, eval_score) ELSE f.alpha,
                 IF f.maximizing THEN f.beta ELSE Min(f.beta, eval_score),
                 improves(eval_score, f.best_eval, f.maximizing))
    IN  IF r.cut THEN [r EXCEPT !.pos = P, !.undone = FALSE] ELSE r

after_call(P, f, eval_score) ==
    IterationRest(P, f, eval_score,
        IF f.maximizing THEN Max(f.alpha, eval_score) ELSE f.alpha,
        IF f.maximizing THEN f.beta ELSE Min(f.beta, eval_score),
        improves(eval_score, f.best_eval, f.maximizing))

\* The rest of the iteration once the recursive call has returned:
\* undo_temp_move, the best score and move, alpha or beta, the cut-off, and
\* at the end of the loop the return of (max_eval | min_eval, best_move).
SearchUndo ==
    /\ ~crashed
    /\ UNCHANGED << resets, online_vars, server_vars >>
    /\ stack # <<>> /\ ret # <<>>
    /\ LET f == stack[Len(stack)]
           r == after_call(Position, f, ret[1])
           finished == r.cut \/ f.i = Len(f.moves)
       IN  /\ SetPosition(r.pos)
           /\ IF finished
              THEN /\ stack' = SubSeq(stack, 1, Len(stack) - 1)
                   /\ ret' = <<r.best_eval, r.best_move>>
              ELSE /\ stack' = [stack EXCEPT ![Len(stack)] =
                                  [f EXCEPT !.i = f.i + 1, !.alpha = r.alpha,
                                            !.beta = r.beta,
                                            !.best_eval = r.best_eval,
                                            !.best_move = r.best_move,
                                            !.undo = NoUndo]]
                   /\ ret' = <<>>
           /\ last' = [Last(IF r.undone THEN "undo_temp_move" ELSE "cut_off",
                            f.moves[f.i], last.color, f.before,
                            last.op = "make_temp_move", FALSE)
                          EXCEPT !.search.cuts =
                              IF r.cut /\ f.i < Len(f.moves) THEN @ + 1 ELSE @]
    /\ UNCHANGED << game_mode, depth, current_turn, in_check, game_over, winner,
                    ai_thinking, crashed, script, plies >>

\* get_best_move after minimax has returned (lines 276-282), and the rest of
\* update_ai: a random legal move when the search gave none, make_move of the
\* move, ai_thinking = False.
UpdateAiEnd ==
    /\ ~crashed
    /\ UNCHANGED << resets, online_vars, server_vars >>
    /\ ai_thinking
    /\ stack = <<>> /\ ret # <<>>
    /\ LET choices == IF ret[2] # NoMove THEN {ret[2]}
                      ELSE Range(get_all_moves(Position, ai_color))
       IN  IF choices = {}
           THEN /\ ai_thinking' = FALSE
                /\ last' = [Last("no_move", NoMove, ai_color, Position, FALSE, FALSE)
                              EXCEPT !.calls = Append(@, Call(NoMove, FALSE, FALSE))]
                /\ UNCHANGED << board, pieces, en_passant_target, current_turn,
                                in_check, game_over, winner, crashed >>
           ELSE \E move \in choices :
                   IF MoveFaults(Position, move)
                   THEN /\ crashed' = TRUE
                        /\ last' = [Last("fault", move, "", Position, FALSE, FALSE)
                                      EXCEPT !.calls =
                                          Append(@, Call(move, ret[2] = NoMove, FALSE))]
                        /\ UNCHANGED << board, pieces, en_passant_target,
                                        current_turn, in_check, game_over, winner,
                                        ai_thinking >>
                   ELSE /\ GameMakeMove(move,
                                        Append(last.calls,
                                               Call(move, ret[2] = NoMove, FALSE)))
                        /\ ai_thinking' = FALSE
                        /\ crashed' = crashed
    /\ ret' = <<>>
    /\ UNCHANGED << game_mode, depth, stack, script, plies >>

(***************************************************************************)
(* ChessAI used directly: besides the game, a client of the class calls    *)
(* get_best_move on the game's board once the scripted game has been       *)
(* played, the AI is not thinking, and no search is running.               *)
(***************************************************************************)
ClientCalls == Len(SelectSeq(last.calls, LAMBDA c : c.client))

\* get_best_move's call of minimax(self.depth, -inf, inf, True), made by a
\* client of ChessAI on the board of a game against the AI whose scripted
\* moves are played, or on the board of a finished game of two people, for
\* which the client has constructed ChessAI(board, BLACK, depth).
ClientCall ==
    /\ ~crashed
    /\ UNCHANGED << resets, online_vars, server_vars >>
    /\ script = <<>> /\ ~ai_thinking
    /\ game_mode = "ai" \/ (game_mode = "human" /\ game_over)
    /\ stack = <<>> /\ ret = <<>>
    /\ ClientCalls < MaxCalls
    /\ Enter(<<>>, MinimaxCall(Position, depth, -Inf, Inf, TRUE))
    /\ last' = Last("search", NoMove, ai_color, Position, FALSE, FALSE)
    /\ UNCHANGED << board, pieces, en_passant_target, game_mode, depth,
                    current_turn, in_check, game_over, winner, ai_thinking,
                    crashed, script, plies >>

\* get_best_move after minimax has returned (lines 276-282): the move of
\* the search, or a random legal move when the search gave none, or None.
ClientReturn ==
    /\ ~crashed
    /\ UNCHANGED << resets, online_vars, server_vars >>
    /\ ~ai_thinking
    /\ stack = <<>> /\ ret # <<>>
    /\ LET choices == IF ret[2] # NoMove THEN {ret[2]}
                      ELSE Range(get_all_moves(Position, ai_color))
       IN  IF choices = {}
           THEN last' = [Last("returned", NoMove, ai_color, Position, FALSE, FALSE)
                           EXCEPT !.calls = Append(@, Call(NoMove, FALSE, TRUE))]
           ELSE \E move \in choices :
                   last' = [Last("returned", move, ai_color, Position, FALSE, FALSE)
                              EXCEPT !.calls =
                                  Append(@, Call(move, ret[2] = NoMove, TRUE))]
    /\ ret' = <<>>
    /\ UNCHANGED << board, pieces, en_passant_target, game_mode, depth,
                    current_turn, in_check, game_over, winner, ai_thinking,
                    stack, crashed, script, plies >>

\* The R key outside online mode (game.py, lines 785-786): reset_game makes
\* a new Board, and a new ChessAI for a game against the AI, and clears the
\* turn, the result and ai_thinking.  The event loop handles the key between
\* two calls of update_ai, so no search is running.  After a reset the
\* players at the board open with OpeningShort.
ResetGame ==
    /\ ~crashed
    /\ UNCHANGED << online_vars, server_vars >>
    /\ stack = <<>> /\ ret = <<>>
    /\ game_mode # "online"
    /\ resets < MaxResets
    /\ resets' = resets + 1
    /\ SetPosition(setup_board)
    /\ current_turn' = WHITE
    /\ game_over' = FALSE
    /\ winner' = ""
    /\ in_check' = FALSE
    /\ ai_thinking' = FALSE
    /\ script' = OpeningShort
    /\ plies' = 0
    /\ last' = History("reset", NoMove, "", setup_board, FALSE, FALSE,
                       [op |-> "none", move |-> NoMove, color |-> ""],
                       setup_board, NoSearch, <<>>)
    /\ UNCHANGED << game_mode, depth, stack, ret, crashed >>

(***************************************************************************)
(* The online game.  NetworkClient's thread calls the callbacks of         *)
(* ChessGame while the main loop runs handle_click and update_online; the  *)
(* two threads share pending_opponent_move, player_color and               *)
(* rematch_pending without a lock.                                         *)
(***************************************************************************)

\* _handle_message on an opponent_move message (network.py, 132-135), and
\* the callback _on_opponent_move (game.py, 308-310): the move is written
\* into the one slot, whatever the slot holds.
OnOpponentMove ==
    /\ ~crashed
    /\ UNCHANGED server_vars
    /\ game_mode = "online"
    /\ inbox # <<>>
    /\ inbox[1].type = "opponent_move"
    /\ inbox[1].after <= sent
    /\ pending_opponent_move' = inbox[1]
    /\ inbox' = Tail(inbox)
    /\ heard' = IF game_over THEN heard ELSE Append(heard, inbox[1].id)
    /\ UNCHANGED << board, pieces, en_passant_target, game_mode, depth,
                    current_turn, in_check, game_over, winner, ai_thinking,
                    stack, ret, crashed, script, resets, plies, last,
                    player_color, rematch_pending, taken, sent, applied >>

\* _handle_message on a rematch_start message, and the callback
\* _on_rematch_start (game.py, 328-331).  The server sends the message once
\* both players have asked for a rematch, which the Y key does when the
\* game is over.
OnRematchStart ==
    /\ ~crashed
    /\ UNCHANGED server_vars
    /\ game_mode = "online"
    /\ inbox # <<>>
    /\ inbox[1].type = "rematch_start"
    /\ inbox[1].after <= sent
    /\ game_over
    /\ player_color' = inbox[1].color
    /\ rematch_pending' = TRUE
    /\ inbox' = Tail(inbox)
    /\ UNCHANGED << board, pieces, en_passant_target, game_mode, depth,
                    current_turn, in_check, game_over, winner, ai_thinking,
                    stack, ret, crashed, script, resets, plies, last,
                    pending_opponent_move, taken, sent, heard, applied >>

\* update_online when rematch_pending is set (game.py, 335-341): reset_game.
UpdateOnlineRematch ==
    /\ ~crashed
    /\ UNCHANGED server_vars
    /\ game_mode = "online"
    /\ taken = NoMsg
    /\ rematch_pending
    /\ rematch_pending' = FALSE
    /\ SetPosition(setup_board)
    /\ current_turn' = WHITE
    /\ game_over' = FALSE
    /\ winner' = ""
    /\ in_check' = FALSE
    /\ ai_thinking' = FALSE
    /\ last' = History("reset", NoMove, "", setup_board, FALSE, FALSE,
                       [op |-> "none", move |-> NoMove, color |-> ""],
                       setup_board, NoSearch, <<>>)
    /\ UNCHANGED << game_mode, depth, stack, ret, crashed, script, resets,
                    plies, player_color, pending_opponent_move, taken, inbox,
                    sent, heard, applied >>

\* Variant of takes_pending that does not look at game_over.
takes_pending_when_over(pending, over) == pending # NoMsg

\* The test of update_online before it takes the move (game.py, line 344).
takes_pending(pending, over) == pending # NoMsg /\ ~over

\* update_online up to move = self.pending_opponent_move (game.py, 344-345).
UpdateOnlineTake ==
    /\ ~crashed
    /\ UNCHANGED server_vars
    /\ game_mode = "online"
    /\ taken = NoMsg
    /\ ~rematch_pending
    /\ takes_pending(pending_opponent_move, game_over)
    /\ taken' = pending_opponent_move
    /\ UNCHANGED << board, pieces, en_passant_target, game_mode, depth,
                    current_turn, in_check, game_over, winner, ai_thinking,
                    stack, ret, crashed, script, resets, plies, last,
                    player_color, pending_opponent_move, rematch_pending,
                    inbox, sent, heard, applied >>

\* The rest of update_online (game.py, 346-375): the slot is cleared, and
\* the move that was read is applied with Board.make_move unless its origin
\* square is empty; then the turn, in_check and check_game_over.  Nothing is
\* sent to the server.
UpdateOnlineApply ==
    /\ ~crashed
    /\ UNCHANGED server_vars
    /\ game_mode = "online"
    /\ taken # NoMsg
    /\ pending_opponent_move' = NoMsg
    /\ taken' = NoMsg
    /\ LET move == taken.move
       IN  IF get_piece(Position, move[1], move[2]) = None
           THEN /\ applied' = applied
                /\ UNCHANGED << board, pieces, en_passant_target, current_turn,
                                in_check, game_over, winner, crashed, last >>
           ELSE IF MoveFaults(Position, move)
           THEN /\ crashed' = TRUE
                /\ applied' = applied
                /\ last' = Last("fault", move, "", Position, FALSE, FALSE)
                /\ UNCHANGED << board, pieces, en_passant_target, current_turn,
                                in_check, game_over, winner >>
           ELSE /\ GameMakeMove(move, last.calls)
                /\ applied' = Append(applied, taken.id)
                /\ crashed' = crashed
    /\ UNCHANGED << game_mode, depth, ai_thinking, stack, ret, script, resets,
                    plies, player_color, rematch_pending, inbox, sent, heard >>

Next ==
    \/ HandleClick
    \/ ResetGame
    \/ OnOpponentMove
    \/ OnRematchStart
    \/ UpdateOnlineRematch
    \/ UpdateOnlineTake
    \/ UpdateOnlineApply
    \/ UpdateAiBegin
    \/ SearchApply
    \/ SearchUndo
    \/ UpdateAiEnd

Spec == Init /\ [][Next]_vars

ApiNext ==
    \/ Next
    \/ ClientCall
    \/ ClientReturn

ApiSpec == Init /\ [][ApiNext]_vars

(***************************************************************************)
(* The server alone: connections send find_match, move, resign and         *)
(* rematch_request messages and close, in any order; a move or resign      *)
(* message carries any game id.  No game is played on this machine.        *)
(***************************************************************************)
ServerInit ==
    /\ ServerStart
    /\ GameStart([game_mode |-> "online", difficulty |-> "none",
                  script |-> <<>>, plies |-> 0, player_color |-> "",
                  inbox |-> <<>>])

\* The server handles one more message or disconnect.
Serving ==
    /\ events < MaxEvents
    /\ events' = events + 1
    /\ UNCHANGED client_vars

ServerFindMatch ==
    Serving /\ \E ws \in Conns : FindMatch(ws)

ServerMove ==
    Serving /\ \E ws \in Conns, game_id \in GameIds : Move(ws, game_id)

ServerResign ==
    Serving /\ \E ws \in Conns, game_id \in GameIds : Resign(ws, game_id)

ServerRematchRequest ==
    Serving /\ \E ws \in Conns : RematchRequest(ws)

ServerDisconnect ==
    Serving /\ \E ws \in Conns : Disconnect(ws)

ServerNext ==
    \/ ServerFindMatch
    \/ ServerMove
    \/ ServerResign
    \/ ServerRematchRequest
    \/ ServerDisconnect

ServerSpec == ServerInit /\ [][ServerNext]_vars

(***************************************************************************)
(* Properties.  They read the Position and the history kept in `last`.     *)
(***************************************************************************)

\* What stands on square i of P, by value: nothing, or kind, color, has_moved.
Content(P, i) == IF P.board[i] = None THEN <<>> ELSE <<P.pieces[P.board[i]]>>

\* Deep value equality of two Positions: every square, en_passant_target and
\* every has_moved flag.
DeepEqual(P, Q) ==
    /\ \A i \in 1..64 : Content(P, i) = Content(Q, i)
    /\ P.en_passant_target = Q.en_passant_target

\* The piece that the last operation moved, as it was before the operation.
Mover == last.before.pieces[At(last.before, last.move[1], last.move[2])]

MoverId == At(last.before, last.move[1], last.move[2])

Permanent == last.op = "make_move"

KingCount(P, color) ==
    Cardinality({i \in 1..64 : /\ P.board[i] # None
                               /\ P.pieces[P.board[i]].piece_type = KING
                               /\ P.pieces[P.board[i]].color = color})

TargetsKing(P, move) ==
    /\ At(P, move[3], move[4]) # None
    /\ P.pieces[At(P, move[3], move[4])].piece_type = KING

\* C1: undo_temp_move(make_temp_move(m)) leaves the Position deep-equal to
\* the Position before the call: whenever an undo directly follows its apply,
\* every square, en_passant_target and every has_moved flag are as before.
C1_UndoRestoresPosition ==
    (last.op = "undo_temp_move" /\ last.leaf) => DeepEqual(Position, last.before)

\* C2: when get_best_move's search has returned, the Position is identical
\* to the Position get_best_move was called on.
C2_SearchLeavesPosition ==
    (stack = <<>> /\ ret # <<>>) => DeepEqual(Position, last.root)

\* C3: after make_move of a move returned by get_legal_moves, the mover's
\* king is not attacked.
C3_LegalMoveKeepsKingSafe ==
    Permanent => ~is_in_check(Position, last.color)

\* A legal move was played by a side that was in check, with a piece for
\* which get_legal_moves had dropped some pseudo-legal move.
C3_Witness ==
    /\ Permanent
    /\ is_in_check(last.before, last.color)
    /\ Len(get_legal_moves(last.before, last.move[1], last.move[2]))
         < Len(get_raw_moves(last.before, last.move[1], last.move[2]))

\* C4: in normal play and in every intermediate position of a search the
\* board holds exactly one king of each color, and no move generated for the
\* side to move has a king's square as its destination.
C4_OneKingEach ==
    /\ KingCount(Position, WHITE) = 1
    /\ KingCount(Position, BLACK) = 1
    /\ last.op \in {"make_move", "make_temp_move"}
          => ~TargetsKing(last.before, last.move)
    /\ (stack # <<>> /\ ret = <<>> /\ stack[Len(stack)].i = 1)
          => \A m \in Range(stack[Len(stack)].moves) : ~TargetsKing(Position, m)

\* The conditions of castling, for the king on (row, col) towards the corner
\* on column 7 (side = 1) or column 0 (side = -1).
CastlingConditions(P, row, col, side) ==
    LET king   == P.pieces[At(P, row, col)]
        corner == IF side = 1 THEN 7 ELSE 0
        rook   == At(P, row, corner)
    IN  /\ ~king.has_moved
        /\ ~is_square_attacked(P, row, col, king.color)
        /\ rook # None
        /\ P.pieces[rook].piece_type = ROOK
        /\ ~P.pieces[rook].has_moved
        /\ \A c \in 0..7 :
              ((col < c /\ c < corner) \/ (corner < c /\ c < col))
                  => At(P, row, c) = None
        /\ ~is_square_attacked(P, row, col + side, king.color)
        /\ ~is_square_attacked(P, row, col + 2 * side, king.color)

\* get_king_moves offers the king of the color a two-column move to the side.
CastlingOffered(P, color, side) ==
    LET king_pos == find_king(P, color)
    IN  /\ king_pos # NoSquare
        /\ InSeq(<<king_pos[1], king_pos[2] + 2 * side>>,
                 get_king_moves(P, king_pos[1], king_pos[2],
                                P.pieces[At(P, king_pos[1], king_pos[2])]))

Castled ==
    /\ Permanent
    /\ Mover.piece_type = KING
    /\ Abs(last.move[4] - last.move[2]) = 2

\* C6: after make_move applies a two-column king move the king stands on its
\* destination, the rook of that side stands on the square the king skipped
\* over (column 5 or 3), its corner is empty, and both have has_moved = true.
C6_CastlingRelocatesRook ==
    Castled =>
        LET row     == last.move[1]
            kingside == last.move[4] > last.move[2]
            corner  == IF kingside THEN 7 ELSE 0
            skipped == IF kingside THEN 5 ELSE 3
            rook    == At(last.before, row, corner)
        IN  /\ At(Position, last.move[3], last.move[4]) = MoverId
            /\ skipped = (last.move[2] + last.move[4]) \div 2
            /\ rook # None
            /\ At(Position, row, skipped) = rook
            /\ pieces[rook].piece_type = ROOK
            /\ pieces[rook].color = Mover.color
            /\ At(Position, row, corner) = None
            /\ pieces[MoverId].has_moved
            /\ pieces[rook].has_moved

\* Black has castled queenside with make_move.
C6_Witness ==
    Castled /\ last.color = BLACK /\ last.move[4] < last.move[2]

\* The last operation was make_move of a pawn by two squares.
DoubleAdvance ==
    /\ Permanent
    /\ Mover.piece_type = PAWN
    /\ Abs(last.move[3] - last.move[1]) = 2

\* The last operation was make_move of a pawn diagonally onto the empty
\* en_passant_target, directly after the opponent's make_move of a pawn by
\* two squares.
EnPassantReply ==
    /\ Permanent
    /\ last.prev.op = "make_move"
    /\ Mover.piece_type = PAWN
    /\ last.move[2] # last.move[4]
    /\ <<last.move[3], last.move[4]>> = last.before.en_passant_target
    /\ At(last.before, last.move[3], last.move[4]) = None
    /\ Abs(last.prev.move[3] - last.prev.move[1]) = 2
    /\ At(last.before, last.prev.move[3], last.prev.move[4]) # None
    /\ last.before.pieces[At(last.before, last.prev.move[3],
                             last.prev.move[4])].piece_type = PAWN

\* C7: a two-square pawn advance sets en_passant_target to the square passed
\* over; when the opponent's next move is a pawn moving diagonally onto that
\* square, make_move removes the advanced pawn from (origin row, destination
\* column), places the capturing pawn on the target and returns true.
C7_EnPassantCapture ==
    /\ DoubleAdvance =>
          en_passant_target = <<(last.move[1] + last.move[3]) \div 2, last.move[2]>>
    /\ EnPassantReply =>
          /\ <<last.prev.move[3], last.prev.move[4]>> = <<last.move[1], last.move[4]>>
          /\ At(Position, last.move[1], last.move[4]) = None
          /\ \A i \in 1..64 :
                board[i] # At(last.before, last.prev.move[3], last.prev.move[4])
          /\ At(Position, last.move[3], last.move[4]) = MoverId
          /\ last.is_capture

\* White has captured en passant.
C7_Witness ==
    EnPassantReply /\ last.color = WHITE

\* C8: after a permanent move en_passant_target is set if and only if that
\* move was a two-square pawn advance, and then it is the square the pawn
\* passed over; it is unset at the start.
C8_EnPassantTargetOnePly ==
    /\ last.op = "init" => en_passant_target = NoSquare
    /\ Permanent =>
          /\ en_passant_target # NoSquare <=> DoubleAdvance
          /\ DoubleAdvance =>
                en_passant_target =
                    <<(last.move[1] + last.move[3]) \div 2, last.move[2]>>

\* A move that is no two-square pawn advance has cleared a target that the
\* move before it had set.
C8_Witness ==
    /\ Permanent
    /\ last.before.en_passant_target # NoSquare
    /\ ~DoubleAdvance
    /\ en_passant_target = NoSquare

\* The last operation was make_move of a pawn onto the farthest rank.
PawnReachedLastRank ==
    /\ Permanent
    /\ Mover.piece_type = PAWN
    /\ last.move[3] = (IF Mover.color = WHITE THEN 0 ELSE 7)

\* C9: after make_move of a pawn onto the farthest rank, by a push or by a
\* capture, the destination holds a Queen of the pawn's color with
\* has_moved = true; no pawn stands on row 0 or row 7 after a permanent move.
C9_PromotionToQueen ==
    /\ PawnReachedLastRank =>
          /\ At(Position, last.move[3], last.move[4]) # None
          /\ pieces[At(Position, last.move[3], last.move[4])] =
                [piece_type |-> QUEEN, color |-> Mover.color, has_moved |-> TRUE]
    /\ last.op \in {"init", "make_move"} =>
          \A row \in {0, 7} : \A col \in 0..7 :
              At(Position, row, col) # None
                  => pieces[At(Position, row, col)].piece_type # PAWN

\* A black pawn has reached row 7 by a capture.
C9_Witness ==
    /\ PawnReachedLastRank
    /\ last.color = BLACK
    /\ last.move[2] # last.move[4]
    /\ last.is_capture

\* C10: the Position produced by make_temp_move(m) equals the Position
\* produced by make_move(m) from the same Position: the same kind and color
\* on every square, the same en_passant_target and the same has_moved flags.
C10_TempMoveEqualsMove ==
    Permanent =>
        DeepEqual(make_temp_move(last.before, last.move[1], last.move[2],
                                 last.move[3], last.move[4]).pos,
                  Position)

\* C11: from the standard starting position White has exactly 20 legal
\* moves: get_legal_moves over White's pieces gives 20 (from, to) pairs.
C11_TwentyOpeningMoves ==
    last.op = "init" =>
        /\ Len(get_all_moves(Position, WHITE)) = 20
        /\ Cardinality(Range(get_all_moves(Position, WHITE))) = 20

\* The game has just been set up: White is to move and a knight jump and a
\* two-square pawn advance are among its legal moves.
C11_Witness ==
    /\ last.op = "init"
    /\ current_turn = WHITE
    /\ Position = setup_board
    /\ InSeq(<<7, 1, 5, 2>>, get_all_moves(Position, WHITE))
    /\ InSeq(<<6, 4, 4, 4>>, get_all_moves(Position, WHITE))

\* The Position after make_move of each move of the sequence, from P.
RECURSIVE PlayMoves(_, _)
PlayMoves(P, moves) ==
    IF moves = <<>> THEN P
    ELSE PlayMoves(make_move(P, moves[1][1], moves[1][2], moves[1][3],
                             moves[1][4]).pos,
                   Tail(moves))

FoolsMatePosition == PlayMoves(setup_board, FoolsMate)

\* C12: after the fool's-mate sequence is applied with make_move from the
\* standard setup, has_legal_moves(White) is false and is_in_check(White) is
\* true, and check_game_over has ended the game with Black the winner.
C12_FoolsMateIsCheckmate ==
    (Permanent /\ Position = FoolsMatePosition) =>
        /\ ~has_legal_moves(Position, WHITE)
        /\ is_in_check(Position, WHITE)
        /\ current_turn = WHITE
        /\ in_check
        /\ game_over
        /\ winner = BLACK

\* The four moves of the fool's mate have been played, the last one Black's
\* queen to h4.
C12_Witness ==
    /\ Permanent
    /\ last.move = <<0, 3, 4, 7>>
    /\ Position = FoolsMatePosition
    /\ script = <<>>

\* The color has only a king on the board, the king's square is not
\* attacked, and every square of the board next to it is attacked or holds a
\* piece of the color.
StalematePattern(P, color) ==
    LET king_pos == find_king(P, color)
    IN  /\ king_pos # NoSquare
        /\ \A i \in 1..64 :
              (P.board[i] # None /\ P.pieces[P.board[i]].color = color)
                  => i = Idx(king_pos[1], king_pos[2])
        /\ ~is_square_attacked(P, king_pos[1], king_pos[2], color)
        /\ \A d \in 1..8 :
              LET r == king_pos[1] + king_deltas[d][1]
                  c == king_pos[2] + king_deltas[d][2]
              IN  is_valid_position(r, c) =>
                      \/ is_square_attacked(P, r, c, color)
                      \/ /\ At(P, r, c) # None
                         /\ P.pieces[At(P, r, c)].color = color

\* C13: in a stalemate position (the side to move has only a king, every
\* square next to it is attacked or blocked, the king's square is not
\* attacked) has_legal_moves and is_in_check are both false for that side, and
\* check_game_over ends the game without a winner.
C13_StalemateIsNotCheckmate ==
    (Permanent /\ StalematePattern(Position, current_turn)) =>
        /\ ~has_legal_moves(Position, current_turn)
        /\ ~is_in_check(Position, current_turn)
        /\ ~in_check
        /\ game_over
        /\ winner = ""

\* Black, with only its king left, has been stalemated by White's last move.
C13_Witness ==
    /\ Permanent
    /\ current_turn = BLACK
    /\ StalematePattern(Position, BLACK)
    /\ game_over

(***************************************************************************)
(* Full-width minimax: minimax of ai.py without the cut-off, over the same *)
(* moves, with the same make_temp_move and undo_temp_move, the same leaf   *)
(* evaluation and the same terminal scores.  The result is the score, the  *)
(* Position left behind, the first move that attains the score, and        *)
(* whether an AttributeError ended the search.                             *)
(***************************************************************************)
RECURSIVE FullLoop(_, _, _, _, _, _, _)
RECURSIVE FullSearch(_, _, _)

FullStep(P, d, maximizing, moves, i, best, best_move, t, child) ==
    IF child.fault THEN child
    ELSE LET better == improves(child.score, best, maximizing)
         IN  FullLoop(undo_temp_move(child.pos, t.undo), d, maximizing, moves,
                      i + 1,
                      IF better THEN child.score ELSE best,
                      IF better THEN moves[i] ELSE best_move)

FullLoop(P, d, maximizing, moves, i, best, best_move) ==
    IF i > Len(moves)
    THEN [score |-> best, pos |-> P, move |-> best_move, fault |-> FALSE]
    ELSE IF MoveFaults(P, moves[i])
    THEN [score |-> best, pos |-> P, move |-> best_move, fault |-> TRUE]
    ELSE LET t == make_temp_move(P, moves[i][1], moves[i][2], moves[i][3],
                                 moves[i][4])
         IN  FullStep(P, d, maximizing, moves, i, best, best_move, t,
                      FullSearch(t.pos, d - 1, ~maximizing))

FullNode(P, d, maximizing, current_color, moves) ==
    IF moves = <<>>
    THEN [score |-> IF is_in_check(P, current_color)
                    THEN (IF maximizing THEN -100000 ELSE 100000)
                    ELSE 0,
          pos |-> P, move |-> NoMove, fault |-> FALSE]
    ELSE FullLoop(P, d, maximizing, moves, 1, worst_eval(maximizing), NoMove)

FullSearch(P, d, maximizing) ==
    IF d = 0
    THEN [score |-> evaluate_board(P, ai_color), pos |-> P, move |-> NoMove,
          fault |-> FALSE]
    ELSE FullNode(P, d, maximizing,
                  IF maximizing THEN ai_color ELSE opponent_color,
                  get_all_moves(P, IF maximizing THEN ai_color
                                                 ELSE opponent_color))

\* The outermost call of minimax has returned to get_best_move.
SearchReturned == stack = <<>> /\ ret # <<>>

SameScore(full) == ~full.fault /\ ret[1] = full.score

\* C14: for depth 1 and 2 the score that minimax with alpha-beta pruning
\* returns, called with alpha = -infinity, beta = +infinity as the maximizing
\* side, is the score of full-width minimax over the same tree.
C14_AlphaBetaEqualsFullWidth ==
    SearchReturned => SameScore(FullSearch(last.root, depth, TRUE))

\* A depth-2 search in which the loop was left by a cut-off has returned.
C14_Witness ==
    /\ SearchReturned
    /\ depth = 2
    /\ last.search.cuts > 0
    /\ ret[2] # NoMove

\* The call of get_best_move that returned last.
LastCall == last.calls[Len(last.calls)]

\* move is a legal move of color on P, by Board's own rules.
IsLegalMoveOf(P, color, move) ==
    /\ move # NoMove
    /\ At(P, move[1], move[2]) # None
    /\ P.pieces[At(P, move[1], move[2])].color = color
    /\ InSeq(<<move[3], move[4]>>, get_raw_moves(P, move[1], move[2]))
    /\ is_move_legal(P, move[1], move[2], move[3], move[4])

NoneOrLegal(P, d, move) ==
    d >= 1 =>
        IF has_legal_moves(P, ai_color)
        THEN IsLegalMoveOf(P, ai_color, move)
        ELSE move = NoMove

\* C15: get_best_move returns no move if and only if the AI color has no
\* legal move in the root position, and otherwise it returns one of the AI
\* color's legal moves in the root position.
C15_NoMoveOnlyWithoutLegalMoves ==
    last.calls # <<>> => NoneOrLegal(LastCall.root, LastCall.depth, LastCall.move)

\* get_best_move has returned None to a client on a position in which the AI
\* color has no legal move, after it returned a move in an earlier call.
C15_Witness ==
    /\ last.op = "returned"
    /\ LastCall.client
    /\ LastCall.move = NoMove
    /\ ~has_legal_moves(LastCall.root, ai_color)
    /\ \E k \in 1..Len(last.calls) : last.calls[k].move # NoMove

\* Two calls on equal positions with the same depth.
SameInput(c1, c2) == DeepEqual(c1.root, c2.root) /\ c1.depth = c2.depth

Deterministic(c1, c2) ==
    (SameInput(c1, c2) /\ has_legal_moves(c2.root, ai_color)) =>
        /\ c1.move = c2.move
        /\ ~c1.random /\ ~c2.random

\* C16: two calls of get_best_move on equal positions with the same AI color
\* and depth return the same move when the AI color has a legal move, and the
\* random choice is not taken in that case.
C16_BestMoveDeterministic ==
    \A k \in 1..Len(last.calls) : Deterministic(last.calls[k], LastCall)

\* Two calls on equal positions have returned, and the AI color had more than
\* one legal move.
C16_Witness ==
    /\ Len(last.calls) >= 2
    /\ SameInput(last.calls[Len(last.calls) - 1], LastCall)
    /\ LastCall.move # NoMove
    /\ Len(get_all_moves(LastCall.root, ai_color)) > 1

(***************************************************************************)
(* The squares whose content a move generator looks up in self.board, in   *)
(* the order of the generator's code.                                      *)
(***************************************************************************)
get_pawn_reads(P, row, col, piece) ==
    LET direction == IF piece.color = WHITE THEN -1 ELSE 1
        start_row == IF piece.color = WHITE THEN 6 ELSE 1
        new_row   == row + direction
        forward ==
            IF is_valid_position(new_row, col)
            THEN {<<new_row, col>>} \cup
                 (IF At(P, new_row, col) = None /\ row = start_row
                  THEN {<<row + 2 * direction, col>>}
                  ELSE {})
            ELSE {}
        diagonal(dc) ==
            IF is_valid_position(new_row, col + dc)
            THEN {<<new_row, col + dc>>}
            ELSE {}
    IN  forward \cup diagonal(-1) \cup diagonal(1)

StepReads(row, col, deltas) ==
    {<<row + d[1], col + d[2]>> :
        d \in {e \in Range(deltas) : is_valid_position(row + e[1], col + e[2])}}

RECURSIVE RayReads(_, _, _, _, _)
RayReads(P, new_row, new_col, dr, dc) ==
    IF ~is_valid_position(new_row, new_col) THEN {}
    ELSE {<<new_row, new_col>>} \cup
         (IF At(P, new_row, new_col) = None
          THEN RayReads(P, new_row + dr, new_col + dc, dr, dc)
          ELSE {})

get_sliding_reads(P, row, col, directions) ==
    UNION {RayReads(P, row + d[1], col + d[2], d[1], d[2]) :
              d \in Range(directions)}

\* The loops over range(col + 1, 7) and range(1, col) of the two castling
\* tests, which stop at the first occupied square.
castle_reads(P, row, corner, columns) ==
    LET rook == get_piece(P, row, corner)
    IN  IF rook = None \/ P.pieces[rook].piece_type # ROOK
                       \/ P.pieces[rook].has_moved
        THEN {}
        ELSE {<<row, c>> : c \in {k \in columns :
                 \A j \in columns : j < k => At(P, row, j) = None}}

get_king_reads(P, row, col, piece) ==
    StepReads(row, col, king_deltas) \cup
    (IF ~piece.has_moved /\ ~is_square_attacked(P, row, col, piece.color)
     THEN castle_reads(P, row, 7, (col + 1)..6)
          \cup castle_reads(P, row, 0, 1..(col - 1))
     ELSE {})

get_raw_reads(P, row, col) ==
    LET id == get_piece(P, row, col)
    IN  IF id = None THEN {}
        ELSE LET piece == P.pieces[id]
             IN  CASE piece.piece_type = PAWN   -> get_pawn_reads(P, row, col, piece)
                   [] piece.piece_type = KNIGHT -> StepReads(row, col, knight_deltas)
                   [] piece.piece_type = BISHOP ->
                          get_sliding_reads(P, row, col, bishop_directions)
                   [] piece.piece_type = ROOK   ->
                          get_sliding_reads(P, row, col, rook_directions)
                   [] piece.piece_type = QUEEN  ->
                          get_sliding_reads(P, row, col, queen_directions)
                   [] piece.piece_type = KING   -> get_king_reads(P, row, col, piece)
                   [] OTHER -> {}

OnBoard(square) == square[1] \in 0..7 /\ square[2] \in 0..7

\* How far beyond the board's edge the queries are tried.
Margin == 2

Outside ==
    {sq \in ((0 - Margin)..(7 + Margin)) \X ((0 - Margin)..(7 + Margin)) :
        ~OnBoard(sq)}

\* A query on a square outside the board gives None or no moves.
OutsideGivesNothing(P) ==
    \A sq \in Outside :
        /\ get_piece(P, sq[1], sq[2]) = None
        /\ get_raw_moves(P, sq[1], sq[2]) = <<>>
        /\ get_legal_moves(P, sq[1], sq[2]) = <<>>

\* The generator of the piece on (row, col) returns and reads only squares
\* of the board.
StaysOnBoard(P, row, col) ==
    /\ \A sq \in Range(get_raw_moves(P, row, col)) : OnBoard(sq)
    /\ \A sq \in get_raw_reads(P, row, col) : OnBoard(sq)

\* P with piece id standing on (row, col) as a piece that has moved.
Placed(P, id, row, col) ==
    [P EXCEPT !.board[Idx(row, col)] = id, !.pieces[id].has_moved = TRUE]

\* One piece of each kind and color: the pieces of the a-, b-, c-, d- and
\* e-file of both sides.
Samples == {1, 2, 3, 5, 7, 9, 17, 18, 20, 22, 24, 26}

\* C17: a query on a square outside the board raises no fault and gives None
\* or the empty sequence, and no move generator reads or returns a square
\* outside the board, for the pieces where they stand and for a piece of
\* every kind and color moved to any square.
C17_OffBoardIsNothing ==
    /\ OutsideGivesNothing(Position)
    /\ \A row \in 0..7 : \A col \in 0..7 : StaysOnBoard(Position, row, col)
    /\ last.op \in {"init", "make_move"} =>
          \A id \in Samples : \A row \in 0..7 : \A col \in 0..7 :
              StaysOnBoard(Placed(Position, id, row, col), row, col)

\* During a search a knight stands on the edge of the board, where some of
\* its jumps leave the board, and a pawn stands next to the edge.
C17_Witness ==
    /\ last.op = "make_temp_move"
    /\ \E row \in 0..7 : \E col \in {0, 7} :
          /\ At(Position, row, col) # None
          /\ pieces[At(Position, row, col)].piece_type = KNIGHT
          /\ Len(get_raw_moves(Position, row, col)) > 0
    /\ \E row \in 1..6 : \E col \in {0, 7} :
          /\ At(Position, row, col) # None
          /\ pieces[At(Position, row, col)].piece_type = PAWN

\* The frames of minimax whose move is applied and not yet undone.
Pending == {k \in DOMAIN stack : stack[k].undo # NoUndo}

\* C18: in minimax every make_temp_move is followed by exactly one
\* undo_temp_move before the next move of the same call is applied and before
\* the call returns, also when the loop is left by the cut-off: the applies
\* not yet undone are those of the calls that wait for their callee, one
\* each, and at the return of the outermost call applies and undos are equal.
C18_ApplyUndoBalanced ==
    /\ last.search.applies = last.search.undos + Cardinality(Pending)
    /\ \A k \in DOMAIN stack : k < Len(stack) => k \in Pending
    /\ (stack # <<>> /\ ret # <<>>) => Len(stack) \in Pending
    /\ stack = <<>> => last.search.applies = last.search.undos

\* A depth-2 search that left loops by the cut-off has returned with as many
\* undos as applies.
C18_Witness ==
    /\ SearchReturned
    /\ last.search.cuts > 1
    /\ last.search.applies > 20
    /\ last.search.applies = last.search.undos

(***************************************************************************)
(* The query operations as they run: is_move_legal writes the simulated    *)
(* move into self.board and writes the saved references back; the others   *)
(* call it move after move.  Each operator gives the Position the call     *)
(* leaves behind.                                                          *)
(***************************************************************************)

\* Variant of restore_simulation that does not put back the pawn taken off
\* for an en passant capture.
restore_simulation_without_pawn(P, S, from_row, from_col, to_row, to_col) ==
    [S EXCEPT !.board = [S.board EXCEPT
                            ![Idx(from_row, from_col)] = At(P, from_row, from_col),
                            ![Idx(to_row, to_col)] = At(P, to_row, to_col)]]

\* Lines 252-256 of is_move_legal on the simulated Position S: piece, captured
\* and en_passant_capture are the locals read from P at lines 238-245.
restore_simulation(P, S, from_row, from_col, to_row, to_col) ==
    LET piece    == At(P, from_row, from_col)
        captured == At(P, to_row, to_col)
        en_passant_capture ==
            IF P.pieces[piece].piece_type = PAWN
               /\ <<to_row, to_col>> = P.en_passant_target
            THEN At(P, from_row, to_col)
            ELSE None
        b1 == [S.board EXCEPT ![Idx(from_row, from_col)] = piece,
                              ![Idx(to_row, to_col)] = captured]
    IN  [S EXCEPT !.board =
            IF en_passant_capture # None
            THEN [b1 EXCEPT ![Idx(from_row, to_col)] = en_passant_capture]
            ELSE b1]

\* The Position after is_move_legal(from_row, from_col, to_row, to_col).
AfterIsMoveLegal(P, from_row, from_col, to_row, to_col) ==
    restore_simulation(P, SimulatedMove(P, from_row, from_col, to_row, to_col),
                       from_row, from_col, to_row, to_col)

\* The Position after the loop of get_legal_moves over raw_moves from move i.
RECURSIVE AfterLegalLoop(_, _, _, _, _)
AfterLegalLoop(P, row, col, raw_moves, i) ==
    IF i > Len(raw_moves) THEN P
    ELSE AfterLegalLoop(AfterIsMoveLegal(P, row, col, raw_moves[i][1],
                                         raw_moves[i][2]),
                        row, col, raw_moves, i + 1)

\* The Position after get_legal_moves(row, col).
AfterGetLegalMoves(P, row, col) ==
    IF get_piece(P, row, col) = None THEN P
    ELSE AfterLegalLoop(P, row, col, get_raw_moves(P, row, col), 1)

\* The Position after has_legal_moves(color), from square i in row-major
\* order: the loop returns at the first piece that has a legal move.
RECURSIVE AfterHasLegalMoves(_, _, _)
AfterHasLegalMoves(P, color, i) ==
    IF i > 64 THEN P
    ELSE IF P.board[i] # None /\ P.pieces[P.board[i]].color = color
    THEN LET row == (i - 1) \div 8
             col == (i - 1) % 8
             Q   == AfterGetLegalMoves(P, row, col)
         IN  IF Len(get_legal_moves(P, row, col)) > 0 THEN Q
             ELSE AfterHasLegalMoves(Q, color, i + 1)
    ELSE AfterHasLegalMoves(P, color, i + 1)

\* A legality query on an en passant capture and one on a capture are made.
QueriesCaptures(P) ==
    /\ P.en_passant_target # NoSquare
    /\ \E row \in 0..7 : \E col \in 0..7 :
          /\ At(P, row, col) # None
          /\ P.pieces[At(P, row, col)].piece_type = PAWN
          /\ InSeq(P.en_passant_target, get_raw_moves(P, row, col))
          /\ At(P, row, P.en_passant_target[2]) # None
    /\ \E row \in 0..7 : \E col \in 0..7 :
          \E sq \in Range(get_raw_moves(P, row, col)) :
              At(P, sq[1], sq[2]) # None

\* C19: is_move_legal, get_legal_moves and has_legal_moves leave the Position
\* as it was when they return: every square holds the same piece, also the
\* square of a pawn taken off while an en passant capture is simulated and
\* the destination square, and en_passant_target and the has_moved flags are
\* the same.  is_in_check and is_square_attacked assign nothing.
C19_QueriesLeavePosition ==
    /\ \A row \in 0..7 : \A col \in 0..7 :
          AfterGetLegalMoves(Position, row, col) = Position
    /\ last.op \in {"init", "make_move"} =>
          \A color \in {WHITE, BLACK} :
              AfterHasLegalMoves(Position, color, 1) = Position

\* The game asked for the legal moves in a position with an en passant
\* capture and a capture among the moves to test.
C19_Witness ==
    /\ last.op = "make_move"
    /\ QueriesCaptures(Position)

\* The full-width scores of the root moves from move i on, in the order of
\* get_all_moves, each move applied and undone as minimax does.
RECURSIVE RootScores(_, _, _, _)

RootScoresNext(P, d, moves, i, t, child) ==
    IF child.fault THEN <<>>
    ELSE <<child.score>> \o
         RootScores(undo_temp_move(child.pos, t.undo), d, moves, i + 1)

RootScores(P, d, moves, i) ==
    IF i > Len(moves) \/ MoveFaults(P, moves[i]) THEN <<>>
    ELSE LET t == make_temp_move(P, moves[i][1], moves[i][2], moves[i][3],
                                 moves[i][4])
         IN  RootScoresNext(P, d, moves, i, t, FullSearch(t.pos, d - 1, FALSE))

\* The positions in scores of its greatest element.
BestAt(scores) ==
    {i \in DOMAIN scores : \A j \in DOMAIN scores : scores[j] <= scores[i]}

\* The first of the moves with the greatest score.
FirstBest(moves, scores) ==
    moves[CHOOSE i \in BestAt(scores) : \A j \in BestAt(scores) : i <= j]

KeepsFirstBest(moves, scores) ==
    /\ Len(scores) = Len(moves)
    /\ ret[2] = FirstBest(moves, scores)

\* C20: get_best_move returns the first move, in the order of get_all_moves,
\* among the root moves that attain the best score; a later move with an
\* equal score does not replace it, also when pruning gives a bound for it.
C20_FirstBestMoveKept ==
    (SearchReturned /\ ret[2] # NoMove) =>
        KeepsFirstBest(get_all_moves(last.root, ai_color),
                       RootScores(last.root, depth,
                                  get_all_moves(last.root, ai_color), 1))

\* A pruned depth-2 search has returned a move that shares the best score
\* with a later root move.
C20_Witness ==
    /\ SearchReturned /\ ret[2] # NoMove
    /\ depth = 2 /\ last.search.cuts > 0
    /\ Cardinality(BestAt(RootScores(last.root, depth,
                              get_all_moves(last.root, ai_color), 1))) > 1

\* A call of minimax has just returned without entering its loop: the call
\* made by get_best_move, or the recursive call for the move just applied.
ReturnedAtOnce == ret # <<>> /\ last.op \in {"search", "make_temp_move"}

\* The depth and the side of that call.
NodeDepth == IF last.op = "search" THEN depth ELSE stack[Len(stack)].depth - 1
NodeMaximizing ==
    IF last.op = "search" THEN TRUE ELSE ~stack[Len(stack)].maximizing
NodeColor == IF NodeMaximizing THEN ai_color ELSE opponent_color

\* The node is one with depth >= 1 whose side to move has no legal move.
NoMovesNode ==
    /\ ReturnedAtOnce
    /\ NodeDepth >= 1
    /\ ~has_legal_moves(Position, NodeColor)

MateOrDraw(checked, maximizing) ==
    /\ ret[2] = NoMove
    /\ ret[1] = (IF checked THEN (IF maximizing THEN -100000 ELSE 100000) ELSE 0)

\* C21: a minimax node with depth >= 1 whose side to move (the AI color when
\* maximizing, the other color when minimizing) has no legal move returns no
\* move and the score -100000 when maximizing and in check, +100000 when
\* minimizing and in check, and 0 when not in check.
C21_NoMovesScore ==
    NoMovesNode => MateOrDraw(is_in_check(Position, NodeColor), NodeMaximizing)

C21_WitnessMaximizing ==
    NoMovesNode /\ NodeMaximizing /\ is_in_check(Position, NodeColor)

C21_WitnessMinimizing ==
    NoMovesNode /\ ~NodeMaximizing /\ is_in_check(Position, NodeColor)

C21_WitnessStalemate ==
    NoMovesNode /\ ~is_in_check(Position, NodeColor)

\* update_ai has called get_best_move and the call has not returned.
GameSearchBegun == ai_thinking /\ last.op = "search"

\* The calls of get_best_move made by update_ai that have returned.
GameCalls == SelectSeq(last.calls, LAMBDA c : ~c.client)

ObtainedMove(c) == c.move # NoMove /\ ~c.random

\* C22: in a game against the AI, whatever clicks, resets and AI updates
\* came before, update_ai calls get_best_move only on Black's turn, in a game
\* that is not over and in which Black has a legal move; the random choice
\* is not made, and every such call gives update_ai a move.
C22_AiCalledOnlyWithMoves ==
    /\ GameSearchBegun =>
          /\ game_mode = "ai"
          /\ current_turn = BLACK
          /\ ~game_over
          /\ has_legal_moves(last.root, BLACK)
    /\ \A k \in DOMAIN GameCalls : ObtainedMove(GameCalls[k])
    /\ ai_thinking => ~(crashed /\ stack # <<>>)

\* The part of C22 about when get_best_move is called and what a call that
\* returns gives: it holds also on the boards a search has damaged.
C22_CalledOnBlacksTurn ==
    /\ GameSearchBegun =>
          /\ game_mode = "ai"
          /\ current_turn = BLACK
          /\ ~game_over
          /\ has_legal_moves(last.root, BLACK)
    /\ \A k \in DOMAIN GameCalls : ObtainedMove(GameCalls[k])

\* update_ai has called get_best_move after a reset.
C22_AfterReset == GameSearchBegun /\ resets > 0

\* The squares that hold the piece object id.
Held(P, id) == {i \in 1..64 : P.board[i] = id}

\* The last operation applied a move, permanently or in the search.
Applied == last.op \in {"make_move", "make_temp_move"}

\* The last operation, an apply or the undo of one, was on a two-column move
\* of a king.
OnCastling ==
    /\ last.op \in {"make_move", "make_temp_move", "undo_temp_move"}
    /\ Mover.piece_type = KING
    /\ Abs(last.move[4] - last.move[2]) = 2

OriginLeft ==
    /\ At(Position, last.move[1], last.move[2]) = None
    /\ Held(Position, MoverId) \subseteq {Idx(last.move[3], last.move[4])}
    /\ OnCastling =>
          At(Position, last.move[1],
             IF last.move[4] > last.move[2] THEN 7 ELSE 0) = None

\* C23: after permanent moves and applies and undos of the search no piece
\* object is held by two squares, and a piece that was moved (also the rook
\* of a castling move and a capturing pawn) is no longer on its origin.
C23_NoPieceOnTwoSquares ==
    /\ \A id \in DOMAIN pieces : Cardinality(Held(Position, id)) <= 1
    /\ Applied => OriginLeft

\* A search has undone a castling move after permanent castling moves and
\* captures.
C23_Witness ==
    /\ last.op = "undo_temp_move"
    /\ OnCastling
    /\ \E id \in DOMAIN pieces : Held(Position, id) = {}

\* The square is on the board and holds nothing.
Empty(P, sq) == OnBoard(sq) /\ get_piece(P, sq[1], sq[2]) = None

\* The square is on the board and holds a piece of the color, or of the
\* other color.
Friendly(P, sq, color) ==
    /\ get_piece(P, sq[1], sq[2]) # None
    /\ P.pieces[get_piece(P, sq[1], sq[2])].color = color

Enemy(P, sq, color) ==
    /\ get_piece(P, sq[1], sq[2]) # None
    /\ P.pieces[get_piece(P, sq[1], sq[2])].color # color

\* The squares a pawn of the color on (row, col) may move to, by the rules
\* of the pawn.
PawnTargets(P, row, col, color) ==
    LET forward == IF color = WHITE THEN -1 ELSE 1
        start   == IF color = WHITE THEN 6 ELSE 1
        one     == <<row + forward, col>>
        two     == <<row + 2 * forward, col>>
    IN  {sq \in {one} : Empty(P, sq)}
        \cup {sq \in {two} : row = start /\ Empty(P, one) /\ Empty(P, sq)}
        \cup {sq \in {<<row + forward, col - 1>>, <<row + forward, col + 1>>} :
                 OnBoard(sq) /\ (Enemy(P, sq, color) \/ sq = P.en_passant_target)}

PawnMovesExact(P, row, col, color, moves) ==
    /\ Range(moves) = PawnTargets(P, row, col, color)
    /\ Cardinality(Range(moves)) = Len(moves)
    /\ \A sq \in Range(moves) :
          IF sq[2] = col THEN Empty(P, sq) ELSE ~Friendly(P, sq, color)

\* The pawn of P on (row, col), if there is one, has exactly those moves.
PawnAt(P, row, col) ==
    (At(P, row, col) # None /\ P.pieces[At(P, row, col)].piece_type = PAWN) =>
        PawnMovesExact(P, row, col, P.pieces[At(P, row, col)].color,
                       get_pawn_moves(P, row, col, P.pieces[At(P, row, col)]))

\* A pawn of each color that has a pawn among its piece objects.
PawnIds(P, color) ==
    {id \in DOMAIN P.pieces : P.pieces[id].piece_type = PAWN
                              /\ P.pieces[id].color = color}

SamplePawns(P) ==
    UNION {IF PawnIds(P, color) = {} THEN {}
           ELSE {CHOOSE id \in PawnIds(P, color) : TRUE} :
           color \in {WHITE, BLACK}}

\* C24: get_pawn_moves returns exactly the empty square one step forward,
\* the square two steps forward from the starting row when both are empty,
\* and the forward diagonals on the board that hold an enemy piece or are
\* en_passant_target; never an occupied forward square or a diagonal with a
\* friendly piece.  Checked for the pawns where they stand and, after every
\* permanent move, for a pawn of either color moved to any square.
C24_PawnMovesExact ==
    /\ \A row \in 0..7 : \A col \in 0..7 : PawnAt(Position, row, col)
    /\ last.op \in {"init", "reset", "make_move"} =>
          \A id \in SamplePawns(Position) : \A row \in 0..7 : \A col \in 0..7 :
              PawnAt(Placed(Position, id, row, col), row, col)

\* A pawn on its starting row has the square before it empty and the next
\* one occupied, while another pawn may capture en passant.
C24_Witness ==
    /\ en_passant_target # NoSquare
    /\ \E row \in 0..7 : \E col \in 0..7 :
          /\ At(Position, row, col) # None
          /\ pieces[At(Position, row, col)].piece_type = PAWN
          /\ InSeq(en_passant_target, get_raw_moves(Position, row, col))
    /\ \E col \in 0..7 :
          \/ /\ At(Position, 6, col) # None
             /\ pieces[At(Position, 6, col)] = Piece(PAWN, WHITE)
             /\ At(Position, 5, col) = None /\ At(Position, 4, col) # None
          \/ /\ At(Position, 1, col) # None
             /\ pieces[At(Position, 1, col)] = Piece(PAWN, BLACK)
             /\ At(Position, 2, col) = None /\ At(Position, 3, col) # None

\* A pawn of by_color stands diagonally behind the square, seen in the
\* direction it moves: the square is one of its two forward diagonals.
PawnAttacks(P, sq, by_color) ==
    \E dc \in {-1, 1} :
        LET from == <<sq[1] - (IF by_color = WHITE THEN -1 ELSE 1), sq[2] + dc>>
        IN  /\ OnBoard(from)
            /\ get_piece(P, from[1], from[2]) # None
            /\ P.pieces[get_piece(P, from[1], from[2])]
                  \in {[piece_type |-> PAWN, color |-> by_color, has_moved |-> m] :
                          m \in BOOLEAN}

\* The square is attacked by by_color when a pawn attacks its forward
\* diagonals only, and the other pieces attack the squares they may move to.
AttackedByRules(P, sq, by_color) ==
    \/ PawnAttacks(P, sq, by_color)
    \/ \E r \in 0..7 : \E c \in 0..7 :
          /\ At(P, r, c) # None
          /\ P.pieces[At(P, r, c)].color = by_color
          /\ P.pieces[At(P, r, c)].piece_type # PAWN
          /\ IF P.pieces[At(P, r, c)].piece_type = KING
             THEN Abs(r - sq[1]) <= 1 /\ Abs(c - sq[2]) <= 1 /\ <<r, c>> # sq
             ELSE InSeq(sq, get_raw_moves(P, r, c))

HomeRow(color) == IF color = WHITE THEN 7 ELSE 0

\* The columns the king stands on, passes and reaches, and those between
\* the king and the rook.
KingPath(kingside) == IF kingside THEN {4, 5, 6} ELSE {4, 3, 2}
Between(kingside) == IF kingside THEN {5, 6} ELSE {1, 2, 3}

\* An unmoved king of the color stands on its home square.
KingAtHome(P, color) ==
    /\ At(P, HomeRow(color), 4) # None
    /\ P.pieces[At(P, HomeRow(color), 4)] = Piece(KING, color)

\* get_legal_moves offers the king of the color the castling move.
Offered(P, color, kingside) ==
    /\ KingAtHome(P, color)
    /\ InSeq(<<HomeRow(color), IF kingside THEN 6 ELSE 2>>,
             get_legal_moves(P, HomeRow(color), 4))

\* Castling by the rules of the game, the attacks of pawns being those on
\* their forward diagonals.
CastlingByRules(P, color, kingside) ==
    LET row  == HomeRow(color)
        rook == At(P, row, IF kingside THEN 7 ELSE 0)
    IN  /\ KingAtHome(P, color)
        /\ rook # None
        /\ P.pieces[rook].piece_type = ROOK
        /\ ~P.pieces[rook].has_moved
        /\ \A c \in Between(kingside) : At(P, row, c) = None
        /\ \A c \in KingPath(kingside) :
              ~AttackedByRules(P, <<row, c>>, Other(color))

\* C25: for castling an opposing pawn attacks exactly its two forward
\* diagonals: the castling move is not offered when a square the king passes
\* or reaches is diagonally in front of an opposing pawn, and it is offered
\* when the rules allow it, whatever squares opposing pawns could advance to.
C25_PawnAttacksDecideCastling ==
    \A color \in {WHITE, BLACK} : \A kingside \in BOOLEAN :
        /\ Offered(Position, color, kingside) =>
              \A c \in KingPath(kingside) \ {4} :
                  ~PawnAttacks(Position, <<HomeRow(color), c>>, Other(color))
        /\ CastlingByRules(Position, color, kingside) =>
              Offered(Position, color, kingside)

\* The second part of C25 alone: castling that the rules allow is offered.
C25_NotWithheld ==
    \A color \in {WHITE, BLACK} : \A kingside \in BOOLEAN :
        CastlingByRules(Position, color, kingside) =>
            Offered(Position, color, kingside)

\* Castling is allowed by the rules and offered while an opposing pawn
\* stands on the row before the king's row.
C25_NotWithheldWitness ==
    \E color \in {WHITE, BLACK} : \E kingside \in BOOLEAN :
        /\ CastlingByRules(Position, color, kingside)
        /\ Offered(Position, color, kingside)
        /\ \E c \in 0..7 :
              /\ At(Position, IF color = WHITE THEN 6 ELSE 1, c) # None
              /\ pieces[At(Position, IF color = WHITE THEN 6 ELSE 1, c)].color # color

\* Every piece of P whose has_moved flag is false is the piece setup_board
\* placed on the square it stands on.
UnmovedAtHome(P) ==
    \A i \in 1..64 :
        (P.board[i] # None /\ ~P.pieces[P.board[i]].has_moved) =>
            /\ setup_board.board[i] = P.board[i]
            /\ setup_board.pieces[P.board[i]] = P.pieces[P.board[i]]

\* An unmoved king is on column 4 of its home row, and an unmoved rook on a
\* corner of that row has the king's color.
UnmovedCastlers(P) ==
    \A row \in 0..7 : \A col \in 0..7 :
        (At(P, row, col) # None /\ ~P.pieces[At(P, row, col)].has_moved
            /\ P.pieces[At(P, row, col)].piece_type = KING) =>
            /\ col = 4
            /\ row = HomeRow(P.pieces[At(P, row, col)].color)
            /\ \A corner \in {0, 7} :
                  (At(P, row, corner) # None
                      /\ P.pieces[At(P, row, corner)].piece_type = ROOK
                      /\ ~P.pieces[At(P, row, corner)].has_moved) =>
                      P.pieces[At(P, row, corner)].color
                          = P.pieces[At(P, row, col)].color

\* C26: in every state reached by permanent moves and by the applies and
\* undos of the search, a piece whose has_moved flag is false stands on the
\* square where setup_board placed it; an unmoved king is on column 4 of its
\* home row, and an unmoved rook on a corner of that row has its color.
C26_UnmovedPiecesAtHome ==
    UnmovedAtHome(Position) /\ UnmovedCastlers(Position)

\* The search has undone a castling move after knights and pawns have moved
\* permanently: king and rook are unmoved again and back on their squares.
C26_Witness ==
    /\ last.op = "undo_temp_move"
    /\ OnCastling
    /\ KingAtHome(Position, last.before.pieces[MoverId].color)
    /\ \E i \in 1..64 :
          /\ board[i] # None
          /\ pieces[board[i]].has_moved
          /\ pieces[board[i]].piece_type \in {KNIGHT, PAWN}

(***************************************************************************)
(* C27.  Once check_game_over has set game_over, handle_click, update_ai   *)
(* and update_online apply no move and leave current_turn alone: while     *)
(* game_over stays true the Position and the turn do not change, and       *)
(* game_over becomes false again only by reset_game.                       *)
(***************************************************************************)
C27_NoMoveAfterGameOver ==
    [][game_over =>
          IF game_over'
          THEN Position' = Position /\ current_turn' = current_turn
          ELSE last'.op = "reset" /\ Position' = setup_board]_vars

\* The game is over and an opponent's move lies in the slot, which
\* update_online does not take.
C27_Witness ==
    /\ game_mode = "online"
    /\ game_over
    /\ last.op = "make_move"
    /\ pending_opponent_move # NoMsg
    /\ taken = NoMsg

(***************************************************************************)
(* C28.  Every opponent_move the network thread delivers while the game is *)
(* not over is applied to the local board exactly once and in the order of *)
(* arrival: the moves applied are always the first of the moves heard, and *)
(* all of them once the slot is empty and update_online holds no move.     *)
(***************************************************************************)
IsPrefix(s, t) == Len(s) <= Len(t) /\ SubSeq(t, 1, Len(s)) = s

AppliedOfHeard == SelectSeq(applied, LAMBDA k : k \in Range(heard))

C28_DeliveredMovesApplied ==
    /\ IsPrefix(AppliedOfHeard, heard)
    /\ (pending_opponent_move = NoMsg /\ taken = NoMsg /\ ~game_over)
          => AppliedOfHeard = heard

\* The part of C28 that holds: no move is applied twice, and the moves that
\* are applied are applied in the order of their arrival.
C28_NeverTwiceNorOutOfOrder ==
    \A i, j \in 1..Len(applied) : i < j => applied[i] < applied[j]

\* Two moves have been applied by update_online, one after the other.
C28_AppliedInOrder == Len(applied) >= 2

(***************************************************************************)
(* C29.  On the server, a game that find_match or rematch_request creates  *)
(* is stored under an id that no game in the games table uses at that      *)
(* moment: creating a game never replaces the entry of an active game.     *)
(***************************************************************************)
C29_NewGameIdUnused ==
    served.created # NoGame => ~served.replaced

\* Ids stay distinct as long as no game has been deleted: the first games
\* get the ids 0, 1, ... .
C29_SecondGame ==
    served.op = "game_start" /\ served.created = 1 /\ ~served.replaced

(***************************************************************************)
(* C30.  On the server, a move or resign message affects only the game     *)
(* recorded for its sender in player_games, whatever game id it carries:   *)
(* opponent_move or opponent_resigned goes only to the other player of     *)
(* that game, and resign deletes only that game.                           *)
(***************************************************************************)
C30_OnlyOwnGameAffected ==
    served.op \in {"move", "resign"} =>
        /\ served.to \subseteq {served.peer}
        /\ served.deleted \subseteq {served.own}

\* The part of C30 that holds: a message that carries the id of the
\* sender's own game reaches only the other player of that game, and
\* deletes only that game.
C30_OwnIdAffectsOwnGame ==
    (served.op \in {"move", "resign"} /\ served.game_id = served.own) =>
        /\ served.to \subseteq {served.peer}
        /\ served.deleted \subseteq {served.own}

\* A resign message with the id of the sender's game has been handled.
C30_OwnResign ==
    /\ served.op = "resign"
    /\ served.game_id = served.own
    /\ served.deleted = {served.own}
    /\ served.to = {served.peer}

====
